---- MODULE Spec2Model ----
(***************************************************************************)
(* Morgus task orchestration engine (src/orchestrator).                    *)
(*                                                                         *)
(* Spec         : OrchestratorService.run driving TaskOrchestrator         *)
(*                .execute_task / _execute_phase against the task store,   *)
(*                the completion provider and the sandbox manager.         *)
(* SpecSandbox  : SandboxManager (command validator, exec_command,         *)
(*                read_file, write_file, list_files) on concrete strings.  *)
(* SpecRegistry : ToolRegistry.register / execute_tool.                    *)
(*                                                                         *)
(* Strings whose characters matter (commands, paths) are sequences of      *)
(* code points.  Collaborator calls (store, provider, docker)              *)
(* either return or raise; the choice is nondeterministic.                 *)
(***************************************************************************)
EXTENDS Integers, Sequences, FiniteSets, TLC

VARIABLES
    \* ---- task store (table "tasks") and polling service
    db,                 \* task id -> [status, phase]
    pending_tasks,      \* OrchestratorService.run: rest of the snapshot being iterated
    \* ---- TaskOrchestrator fields
    current_task_id,    \* 0 is None
    current_container,  \* 0 is None, else a handle (index into sandboxes)
    tool_registry,      \* ToolRegistry.tools: name -> [container, task_id]
    \* ---- docker side of SandboxManager
    sandboxes,          \* handle -> [task, active]; active: the container runs
    \* ---- position and locals of execute_task / _execute_phase
    pc,
    phase_idx,          \* index of `phase` in `phases` (0 outside the for loop)
    iteration,
    tool_calls,         \* parsed calls of this turn not yet executed
    ret,                \* value execute_task is about to return ("raise": an Exception
                        \* escapes, "interrupt": KeyboardInterrupt or the like escapes)
    \* ---- history of the current execution (observation only)
    started,            \* phases for which _execute_phase was called, in order
    results,            \* values returned by _execute_phase, in order
    model_calls,        \* get_completion calls made in the current phase
    cleanup_calls,      \* cleanup_sandbox calls made in this execution
    created,            \* handle created by this execution (0: none)
    completed_written,  \* the status write of line 95 was accepted by the store
    \* ---- SandboxManager on concrete strings (SpecSandbox)
    sb_op,              \* the operation applied and its arguments
    sb_out,             \* its result
    exec_log,           \* commands handed to container.exec_run, in order
    \* ---- ToolRegistry (SpecRegistry)
    reg_tools,          \* registry under test: name -> tool behaviour
    reg_out,            \* outcome of the last execute_tool
    \* ---- one run of _execute_phase on concrete replies and tools (SpecPhase)
    response,           \* the reply of the current turn: [content, tool_calls]
    conversation,       \* messages appended to conversation_history in the current turn
    steps,              \* rows added to the step log in the current turn
    result,             \* text returned by execute_tool, not yet logged
    fault,              \* the exception that ended the phase ("none": none)
    messages,           \* get_completion: the list handed to the provider by the last call
    outstanding         \* calls of the provider or of a tool made and not yet back

orchVars == <<db, pending_tasks, current_task_id, current_container, tool_registry,
              sandboxes, pc, phase_idx, iteration, tool_calls, ret,
              started, results, model_calls, cleanup_calls, created, completed_written>>
sbVars   == <<sb_op, sb_out, exec_log>>
regVars  == <<reg_tools, reg_out>>
phVars   == <<response, conversation, steps, result, fault, messages, outstanding>>
vars     == <<orchVars, sbVars, regVars, phVars>>

---------------------------------------------------------------------------
(* Bounds of the model *)
NumTasks == 2
MAX_ITERATIONS == 2
MaxToolCalls == 2

Tasks == 1..NumTasks

(* main.py:21-27, 75-81 *)
phases == <<"RESEARCH", "PLAN", "BUILD", "EXECUTE", "FINALIZE">>

(* Tool names registered by _register_tools (main.py:113-137). *)
ToolNames == {"file_read", "file_write", "file_list", "shell_exec",
              "git_init", "git_add", "git_commit", "git_push",
              "search_web", "fetch_url", "cloudflare_deploy",
              "notify_user", "ask_user"}

(* Tools bound to the sandbox handle (file, shell, git, deploy tools). *)
SandboxToolNames == {"file_read", "file_write", "file_list", "shell_exec",
                     "git_init", "git_add", "git_commit", "git_push",
                     "cloudflare_deploy"}

(* What the completion provider may return for one tool-call request: a tool
   name with well-formed JSON arguments, or "malformed" for a request whose
   argument text does not parse (llm.py:228-236 drops it).  shell_exec stands
   for every request that leaves the table of tasks alone (notify_user, which
   adds a row to the step log, is among them). *)
RequestKinds == {"shell_exec", "ask_user", "malformed"}

SeqsUpTo(S, n) == UNION {[1..k -> S] : k \in 0..n}

(* Content of a reply: None, the empty string, text without a completion
   phrase, text containing one (main.py:327-339). *)
ContentKinds == {"None", "empty", "plain", "phrase"}

Responses == [content : ContentKinds, tool_calls : SeqsUpTo(RequestKinds, MaxToolCalls)]

---------------------------------------------------------------------------
(* tools/base.py: ToolRegistry *)

(* ToolRegistry.__init__ (base.py:53-54): an empty dict. *)
EmptyRegistry == [n \in {} |-> 0]

(* ToolRegistry.register (base.py:56-59): self.tools[tool.name] = tool. *)
Register(tools, tool) ==
    [n \in DOMAIN tools \cup {tool.name} |-> IF n = tool.name THEN tool ELSE tools[n]]

(* ToolRegistry.get_tool (base.py:61-63): dict.get, None when absent. *)
HasTool(tools, name) == name \in DOMAIN tools

(* The tool instances built for one task, in registration order
   (main.py:113-137 and the create_tools of each tools/*.py). *)
CreateTools(container, task_id) ==
    LET sb(n) == [name |-> n, container |-> container, task_id |-> 0]
        web(n) == [name |-> n, container |-> 0, task_id |-> 0]
        usr(n) == [name |-> n, container |-> 0, task_id |-> task_id]
    IN  << sb("file_read"), sb("file_write"), sb("file_list"),
           sb("shell_exec"),
           sb("git_init"), sb("git_add"), sb("git_commit"), sb("git_push"),
           web("search_web"), web("fetch_url"),
           sb("cloudflare_deploy"),
           usr("notify_user"), usr("ask_user") >>

RECURSIVE RegisterAll(_, _)
RegisterAll(tools, list) ==
    IF list = <<>> THEN tools
    ELSE RegisterAll(Register(tools, Head(list)), Tail(list))

(* TaskOrchestrator._register_tools (main.py:113-137). *)
RegisterTools(tools, container, task_id) ==
    RegisterAll(tools, CreateTools(container, task_id))

---------------------------------------------------------------------------
(* llm.py *)

RECURSIVE DropMalformed(_)
DropMalformed(calls) ==
    IF calls = <<>> THEN <<>>
    ELSE IF Head(calls) = "malformed" THEN DropMalformed(Tail(calls))
    ELSE <<Head(calls)>> \o DropMalformed(Tail(calls))

(* LLMOrchestrator.parse_tool_calls (llm.py:212-238): a request whose
   arguments do not parse is logged and skipped. *)
ParseToolCalls(r) == DropMalformed(r.tool_calls)

(* Python truthiness of response["content"] (main.py:177, llm.py:207). *)
Truthy(content) == content \in {"plain", "phrase"}

(* TaskOrchestrator._is_phase_complete (main.py:316-339) on a str content:
   some completion phrase is a substring of content.lower(). *)
IsPhaseComplete(r) == r.content = "phrase"

---------------------------------------------------------------------------
(* Task store and polling service *)

Statuses == {"absent", "pending", "running", "waiting_for_input", "completed", "error"}

(* DatabaseClient.update_task (database.py:68-89), when the store accepts it. *)
UpdateTask(table, task_id, field, value) ==
    [table EXCEPT ![task_id] = [@ EXCEPT ![field] = value]]

Pending == {t \in Tasks : db[t].status = "pending"}

Orderings(S) == {s \in [1..Cardinality(S) -> S] : \A i, j \in DOMAIN s : i # j => s[i] # s[j]}

OrchInit ==
    /\ db = [t \in Tasks |-> [status |-> "absent", phase |-> "RESEARCH"]]
    /\ pending_tasks = <<>>
    /\ current_task_id = 0
    /\ current_container = 0
    /\ tool_registry = EmptyRegistry
    /\ sandboxes = <<>>
    /\ pc = "idle"
    /\ phase_idx = 0
    /\ iteration = 0
    /\ tool_calls = <<>>
    /\ ret = "none"
    /\ started = <<>>
    /\ results = <<>>
    /\ model_calls = 0
    /\ cleanup_calls = 0
    /\ created = 0
    /\ completed_written = FALSE

locals == <<phase_idx, iteration, tool_calls>>
history == <<started, results, model_calls, cleanup_calls, created, completed_written>>
orchFields == <<current_task_id, current_container, tool_registry>>

(* DatabaseClient.create_task (database.py:24-57), called by the submission
   path (server.py:58-68): a new row, status pending, phase RESEARCH.  The
   store hands out the ids; the rows are numbered in the order of insertion. *)
CreateTask ==
    /\ \E t \in Tasks :
        /\ db[t].status = "absent"
        /\ \A u \in Tasks : u < t => db[u].status # "absent"
        /\ db' = [db EXCEPT ![t] = [status |-> "pending", phase |-> "RESEARCH"]]
    /\ UNCHANGED <<pending_tasks, orchFields, sandboxes, pc, locals, ret, history>>

(* OrchestratorService.run (main.py:353-357): a discovery pass.
   get_pending_tasks returns [] when the store fails (database.py:91-98). *)
SvcPoll ==
    /\ pc = "idle"
    /\ pending_tasks = <<>>
    /\ \E ok \in BOOLEAN :
        IF ok THEN \E order \in Orderings(Pending) : pending_tasks' = order
        ELSE pending_tasks' = <<>>
    /\ UNCHANGED <<db, orchFields, sandboxes, pc, locals, ret, history>>

(* main.py:368-370: KeyboardInterrupt while the service waits (sleep of
   line 366, or the store read of line 356, whose handler catches Exception
   only): `break`, run returns and no task is handed over any more.  The
   rest of the snapshot is gone with the frame of run. *)
SvcInterrupt ==
    /\ pc = "idle"
    /\ pc' = "stopped"
    /\ pending_tasks' = <<>>
    /\ UNCHANGED <<db, orchFields, sandboxes, locals, ret, history>>

(* main.py:358-363 and 51: the next task of the snapshot is handed to
   execute_task. *)
SvcExecute ==
    /\ pc = "idle"
    /\ pending_tasks # <<>>
    /\ current_task_id' = Head(pending_tasks)
    /\ pending_tasks' = Tail(pending_tasks)
    /\ pc' = "get_task"
    /\ phase_idx' = 0
    /\ iteration' = 0
    /\ tool_calls' = <<>>
    /\ ret' = "none"
    /\ started' = <<>>
    /\ results' = <<>>
    /\ model_calls' = 0
    /\ cleanup_calls' = 0
    /\ created' = 0
    /\ completed_written' = FALSE
    /\ UNCHANGED <<db, current_container, tool_registry, sandboxes>>

(* a variant in which an exception that escaped execute_task ends the
   service *)
SvcReturnStopsOnRaise ==
    /\ pc = "done"
    /\ pc' = IF ret \in {"raise", "interrupt"} THEN "stopped" ELSE "idle"
    /\ pending_tasks' = IF ret \in {"raise", "interrupt"} THEN <<>> ELSE pending_tasks
    /\ phase_idx' = 0
    /\ iteration' = 0
    /\ tool_calls' = <<>>
    /\ ret' = "none"
    /\ started' = <<>>
    /\ results' = <<>>
    /\ model_calls' = 0
    /\ cleanup_calls' = 0
    /\ created' = 0
    /\ completed_written' = FALSE
    /\ UNCHANGED <<db, orchFields, sandboxes>>
(* main.py:363-374: execute_task came back.  An exception that escaped it
   ends the for loop; the while loop goes on to the next pass (`except
   Exception`, lines 372-374), unless it was KeyboardInterrupt (`break`,
   lines 368-370) or another BaseException, which leaves run. *)
SvcReturn ==
    /\ pc = "done"
    /\ pc' = IF ret = "interrupt" THEN "stopped" ELSE "idle"
    /\ pending_tasks' = IF ret \in {"raise", "interrupt"} THEN <<>> ELSE pending_tasks
    \* the frame of execute_task is gone
    /\ phase_idx' = 0
    /\ iteration' = 0
    /\ tool_calls' = <<>>
    /\ ret' = "none"
    /\ started' = <<>>
    /\ results' = <<>>
    /\ model_calls' = 0
    /\ cleanup_calls' = 0
    /\ created' = 0
    /\ completed_written' = FALSE
    /\ UNCHANGED <<db, orchFields, sandboxes>>

---------------------------------------------------------------------------
(* TaskOrchestrator.execute_task (main.py:41-111) *)

phase == phases[phase_idx]

(* main.py:54-58: db.get_task returns None when the row is missing or the
   store read fails (database.py:59-66); then return False. *)
GetTask ==
    /\ pc = "get_task"
    /\ \E found \in BOOLEAN :
        IF found THEN pc' = "update_running" /\ ret' = ret
        ELSE pc' = "finally" /\ ret' = "False"
    /\ UNCHANGED <<db, pending_tasks, orchFields, sandboxes, locals, history>>

(* main.py:62-63: status := running; a store failure raises. *)
UpdateRunning ==
    /\ pc = "update_running"
    /\ \E ok \in BOOLEAN :
        IF ok THEN /\ db' = UpdateTask(db, current_task_id, "status", "running")
                   /\ pc' = "create_sandbox"
        ELSE db' = db /\ pc' = "except"
    /\ UNCHANGED <<pending_tasks, orchFields, sandboxes, locals, ret, history>>

(* main.py:65-81: create_sandbox (sandbox.py:25-76, raises when docker
   fails), then _register_tools, reset_conversation and the first turn of
   the for loop. *)
CreateSandbox ==
    /\ pc = "create_sandbox"
    /\ \E ok \in BOOLEAN :
        IF ok
        THEN LET h == Len(sandboxes) + 1 IN
             /\ sandboxes' = Append(sandboxes, [task |-> current_task_id, active |-> TRUE])
             /\ current_container' = h
             /\ created' = h
             /\ tool_registry' = RegisterTools(tool_registry, h, current_task_id)
             /\ phase_idx' = 1
             /\ pc' = "phase_update"
        ELSE /\ pc' = "except"
             /\ UNCHANGED <<sandboxes, current_container, created, tool_registry, phase_idx>>
    /\ UNCHANGED <<db, pending_tasks, current_task_id, iteration, tool_calls, ret,
                   started, results, model_calls, cleanup_calls, completed_written>>

(* a variant of the for loop that does not store the phase it enters *)
PhaseUpdateLeftOut ==
    /\ pc = "phase_update"
    /\ \E ok \in BOOLEAN :
        IF ok THEN db' = db /\ pc' = "phase_start"
        ELSE db' = db /\ pc' = "except"
    /\ UNCHANGED <<pending_tasks, orchFields, sandboxes, locals, ret, history>>
(* main.py:83-85: the stored phase is set before the phase runs. *)
PhaseUpdate ==
    /\ pc = "phase_update"
    /\ \E ok \in BOOLEAN :
        IF ok THEN /\ db' = UpdateTask(db, current_task_id, "phase", phase)
                   /\ pc' = "phase_start"
        ELSE db' = db /\ pc' = "except"
    /\ UNCHANGED <<pending_tasks, orchFields, sandboxes, locals, ret, history>>

(* main.py:87 and 150-163: _execute_phase is entered, the PHASE_START step
   is written (add_task_step raises on a store failure, database.py:136-138)
   and the loop counter is initialised. *)
PhaseStart ==
    /\ pc = "phase_start"
    /\ started' = Append(started, phase)
    /\ model_calls' = 0
    /\ iteration' = 0
    /\ \E ok \in BOOLEAN : pc' = IF ok THEN "loop" ELSE "except"
    /\ UNCHANGED <<db, pending_tasks, orchFields, sandboxes, phase_idx, tool_calls,
                   ret, results, cleanup_calls, created, completed_written>>

(* Leaving _execute_phase, by return or by an exception passing through it:
   its locals (iteration, tool_calls) are gone. *)
LeavePhase ==
    /\ iteration' = 0
    /\ tool_calls' = <<>>

(* An exception raised inside _execute_phase reaches the handler of
   execute_task (main.py:103). *)
RaiseInPhase ==
    /\ pc' = "except"
    /\ LeavePhase

(* main.py:165: while iteration < max_iterations *)
LoopConditionOffByOne == iteration <= MAX_ITERATIONS
LoopCondition == iteration < MAX_ITERATIONS

(* The replies the provider may give, split by what parse_tool_calls
   (main.py:186) makes of them: those without a parsed tool call, and the
   parsed call lists of the others. *)
TextReplies == {r \in Responses : ParseToolCalls(r) = <<>>}
ParsedCalls == {ParseToolCalls(r) : r \in Responses} \ {<<>>}

(* main.py:188-201, a reply r without parsed tool calls: the completion
   predicate decides.  response.get("content", "") is None when the reply
   has no text, and None.lower() raises AttributeError. *)
NoToolCalls(r) ==
    IF r.content = "None" THEN RaiseInPhase
    ELSE /\ pc' = IF IsPhaseComplete(r) THEN "log_complete" ELSE "loop"
         /\ tool_calls' = tool_calls
         /\ iteration' = iteration + 1

(* main.py:165-201: one turn of the loop up to the decision what to do with
   the reply: the counter is incremented, the model is called (the provider
   may raise, llm.py:92-94), a reply with text is written as an LLM_RESPONSE
   step (the store may raise), the tool calls are parsed, and the turn goes
   on to the tool calls or to the completion predicate. *)
ModelCall ==
    /\ pc = "loop"
    /\ LoopCondition
    /\ model_calls' = model_calls + 1
    /\ \/ RaiseInPhase                                   \* get_completion raises
       \/ /\ \E r \in Responses : Truthy(r.content)      \* the LLM_RESPONSE step raises
          /\ RaiseInPhase
       \/ \E calls \in ParsedCalls :                      \* main.py:203
            /\ pc' = "tool_call"
            /\ tool_calls' = calls
            /\ iteration' = iteration + 1
       \/ \E r \in TextReplies : NoToolCalls(r)           \* main.py:188
    /\ UNCHANGED <<db, pending_tasks, orchFields, sandboxes, phase_idx, ret,
                   started, results, cleanup_calls, created, completed_written>>

(* main.py:233-235: the loop ran out; _execute_phase returns False. *)
MaxIterationsReached ==
    /\ pc = "loop"
    /\ ~LoopCondition
    /\ results' = Append(results, FALSE)
    /\ pc' = "phase_failed"
    /\ LeavePhase
    /\ UNCHANGED <<db, pending_tasks, orchFields, sandboxes, phase_idx, ret,
                   started, model_calls, cleanup_calls, created, completed_written>>

(* main.py:87-93 after _execute_phase returned True: next turn of the for
   loop, or leave it after the last phase. *)
AfterPhaseRetry ==
    phase_idx' = phase_idx /\ pc' = "phase_update"
AfterPhaseSuccess ==
    IF phase_idx < Len(phases)
    THEN phase_idx' = phase_idx + 1 /\ pc' = "phase_update"
    ELSE phase_idx' = phase_idx /\ pc' = "mark_completed"

(* main.py:190-198: the PHASE_COMPLETE step, then return True. *)
LogComplete ==
    /\ pc = "log_complete"
    /\ \E ok \in BOOLEAN :
        IF ok THEN results' = Append(results, TRUE) /\ AfterPhaseSuccess /\ LeavePhase
        ELSE results' = results /\ phase_idx' = phase_idx /\ RaiseInPhase
    /\ UNCHANGED <<db, pending_tasks, orchFields, sandboxes, ret,
                   started, model_calls, cleanup_calls, created, completed_written>>

(* tool_registry.execute_tool(name, args) (base.py:69-91) as the loop sees
   it: it returns a text whatever happens, and what it may change is the
   task store: ask_user (user_tools.py:102-129) sets the status of the task
   it is bound to, unless the store refuses (the tool catches that).  The
   sandbox tools act inside the container they are bound to. *)
ExecuteTool(name) ==
    IF HasTool(tool_registry, name) /\ name = "ask_user"
    THEN \E ok \in BOOLEAN :
            db' = IF ok THEN UpdateTask(db, tool_registry[name].task_id,
                                        "status", "waiting_for_input")
                  ELSE db
    ELSE db' = db

(* main.py:204-231, one turn of the for loop over tool_calls: the TOOL_CALL
   step (the store may raise), execute_tool, the TOOL_RESULT step (the store
   may raise), add_tool_result; then the next call of the turn, or the next
   iteration of the while loop. *)
ToolCall ==
    /\ pc = "tool_call"
    /\ \/ db' = db /\ RaiseInPhase                              \* TOOL_CALL step raises
       \/ /\ ExecuteTool(Head(tool_calls))
          /\ \/ RaiseInPhase                                    \* TOOL_RESULT step raises
             \/ /\ tool_calls' = Tail(tool_calls)
                /\ pc' = IF Tail(tool_calls) = <<>> THEN "loop" ELSE "tool_call"
                /\ iteration' = iteration
    /\ UNCHANGED <<pending_tasks, orchFields, sandboxes, phase_idx, ret, history>>

(* main.py:89-92: a phase returned False: status := error, return False. *)
PhaseFailedRetries ==
    /\ pc = "phase_failed"
    /\ pc' = "phase_update"
    /\ model_calls' = 0
    /\ UNCHANGED <<db, pending_tasks, orchFields, sandboxes, locals, ret,
                   started, results, cleanup_calls, created, completed_written>>
PhaseFailedBreaks ==
    /\ pc = "phase_failed"
    /\ \E ok \in BOOLEAN :
        IF ok THEN /\ db' = UpdateTask(db, current_task_id, "status", "error")
                   /\ pc' = "mark_completed"
        ELSE db' = db /\ pc' = "except"
    /\ model_calls' = 0
    /\ UNCHANGED <<pending_tasks, orchFields, sandboxes, locals, ret,
                   started, results, cleanup_calls, created, completed_written>>
PhaseFailed ==
    /\ pc = "phase_failed"
    /\ \E ok \in BOOLEAN :
        IF ok THEN /\ db' = UpdateTask(db, current_task_id, "status", "error")
                   /\ ret' = "False"
                   /\ pc' = "finally"
        ELSE db' = db /\ ret' = ret /\ pc' = "except"
    /\ model_calls' = 0
    /\ UNCHANGED <<pending_tasks, orchFields, sandboxes, locals,
                   started, results, cleanup_calls, created, completed_written>>

(* main.py:94-101: all phases returned True: status := completed. *)
MarkCompleted ==
    /\ pc = "mark_completed"
    /\ \E ok \in BOOLEAN :
        IF ok THEN /\ db' = UpdateTask(UpdateTask(db, current_task_id, "status", "completed"),
                                       current_task_id, "phase", "FINALIZE")
                   /\ completed_written' = TRUE
                   /\ ret' = "True"
                   /\ pc' = "finally"
        ELSE db' = db /\ completed_written' = FALSE /\ ret' = ret /\ pc' = "except"
    /\ UNCHANGED <<pending_tasks, orchFields, sandboxes, locals,
                   started, results, model_calls, cleanup_calls, created>>

ExceptWithoutStatus ==
    /\ pc = "except"
    /\ ret' = "False"
    /\ pc' = "finally"
    /\ model_calls' = 0
    /\ UNCHANGED <<db, pending_tasks, orchFields, sandboxes, locals,
                   started, results, cleanup_calls, created, completed_written>>
(* main.py:103-106: except Exception: status := error, return False; when
   this write fails too the exception leaves execute_task. *)
Except ==
    /\ pc = "except"
    /\ \E ok \in BOOLEAN :
        IF ok THEN db' = UpdateTask(db, current_task_id, "status", "error") /\ ret' = "False"
        ELSE db' = db /\ ret' = "raise"
    /\ pc' = "finally"
    /\ model_calls' = 0
    /\ UNCHANGED <<pending_tasks, orchFields, sandboxes, locals,
                   started, results, cleanup_calls, created, completed_written>>

(* How cleanup_sandbox (sandbox.py:251-263) ends.  stopped: container.stop
   has returned, so the container no longer runs, whatever container.remove
   does after it.  interrupted: a KeyboardInterrupt or SystemExit raised
   inside container.stop, container.remove or the logging call passes
   `except Exception` (line 262) and leaves cleanup_sandbox; an Exception
   is logged and swallowed instead (lines 262-263).  The four outcomes:
   stop returned and the call returned; stop raised an Exception; an
   interrupt inside stop; stop returned and an interrupt after it. *)
CleanupOutcomes ==
    {[stopped |-> TRUE, interrupted |-> FALSE],
     [stopped |-> FALSE, interrupted |-> FALSE],
     [stopped |-> FALSE, interrupted |-> TRUE],
     [stopped |-> TRUE, interrupted |-> TRUE]}

(* main.py:108-111 with cleanup_sandbox (sandbox.py:251-263): the finally
   block calls cleanup_sandbox on whatever self.current_container holds. *)
FinallyNoCleanup ==
    /\ pc = "finally"
    /\ pc' = "done"
    /\ UNCHANGED <<db, pending_tasks, orchFields, sandboxes, locals, ret, history>>
FinallyTwice ==
    /\ pc = "finally"
    /\ pc' = "done"
    /\ IF current_container # 0
       THEN /\ sandboxes' = [sandboxes EXCEPT ![current_container].active = FALSE]
            /\ cleanup_calls' = cleanup_calls + (IF ret = "False" THEN 2 ELSE 1)
       ELSE UNCHANGED <<sandboxes, cleanup_calls>>
    /\ UNCHANGED <<db, pending_tasks, orchFields, locals, ret,
                   started, results, model_calls, created, completed_written>>
Finally ==
    /\ pc = "finally"
    /\ pc' = "done"
    /\ IF current_container # 0
       THEN /\ cleanup_calls' = cleanup_calls + 1
            /\ \E outcome \in CleanupOutcomes :
                /\ sandboxes' = IF outcome.stopped
                                THEN [sandboxes EXCEPT ![current_container].active = FALSE]
                                ELSE sandboxes
                /\ ret' = IF outcome.interrupted THEN "interrupt" ELSE ret
       ELSE UNCHANGED <<sandboxes, cleanup_calls, ret>>
    /\ UNCHANGED <<db, pending_tasks, orchFields, locals,
                   started, results, model_calls, created, completed_written>>

(* KeyboardInterrupt, or another BaseException that is not an Exception,
   raised inside a call made by execute_task (main.py:53-101) or by its
   handler (main.py:103-106): `except Exception` does not catch it, the
   finally block runs and the exception leaves execute_task. *)
Interrupt ==
    /\ pc \in {"get_task", "update_running", "create_sandbox", "phase_update",
               "phase_start", "loop", "log_complete", "tool_call", "phase_failed",
               "mark_completed", "except"}
    /\ pc' = "finally"
    /\ ret' = "interrupt"
    /\ LeavePhase
    /\ model_calls' = 0
    /\ UNCHANGED <<db, pending_tasks, orchFields, sandboxes, phase_idx,
                   started, results, cleanup_calls, created, completed_written>>

---------------------------------------------------------------------------
NoRequest == [tool |-> "none"]
NoResult == [returned |-> FALSE]
SbIdle == sb_op = NoRequest /\ sb_out = NoResult /\ exec_log = <<>>
RegIdle == reg_tools = EmptyRegistry /\ reg_out = [name |-> "none"]
NoReply == [content |-> "None", tool_calls |-> <<>>]
NoText == [text |-> "none"]
PhIdle ==
    /\ response = NoReply
    /\ conversation = <<>>
    /\ steps = <<>>
    /\ result = NoText
    /\ fault = "none"
    /\ messages = <<>>
    /\ outstanding = {}

Init == OrchInit /\ SbIdle /\ RegIdle /\ PhIdle
Next ==
    \/ CreateTask /\ UNCHANGED <<sbVars, regVars, phVars>>
    \/ SvcPoll /\ UNCHANGED <<sbVars, regVars, phVars>>
    \/ SvcExecute /\ UNCHANGED <<sbVars, regVars, phVars>>
    \/ SvcReturn /\ UNCHANGED <<sbVars, regVars, phVars>>
    \/ GetTask /\ UNCHANGED <<sbVars, regVars, phVars>>
    \/ UpdateRunning /\ UNCHANGED <<sbVars, regVars, phVars>>
    \/ CreateSandbox /\ UNCHANGED <<sbVars, regVars, phVars>>
    \/ PhaseUpdate /\ UNCHANGED <<sbVars, regVars, phVars>>
    \/ PhaseStart /\ UNCHANGED <<sbVars, regVars, phVars>>
    \/ ModelCall /\ UNCHANGED <<sbVars, regVars, phVars>>
    \/ MaxIterationsReached /\ UNCHANGED <<sbVars, regVars, phVars>>
    \/ LogComplete /\ UNCHANGED <<sbVars, regVars, phVars>>
    \/ ToolCall /\ UNCHANGED <<sbVars, regVars, phVars>>
    \/ PhaseFailed /\ UNCHANGED <<sbVars, regVars, phVars>>
    \/ MarkCompleted /\ UNCHANGED <<sbVars, regVars, phVars>>
    \/ Except /\ UNCHANGED <<sbVars, regVars, phVars>>
    \/ Finally /\ UNCHANGED <<sbVars, regVars, phVars>>
    \/ Interrupt /\ UNCHANGED <<sbVars, regVars, phVars>>
    \/ SvcInterrupt /\ UNCHANGED <<sbVars, regVars, phVars>>
Spec == Init /\ [][Next]_vars

---------------------------------------------------------------------------
(* Properties of execute_task / _execute_phase (Spec) *)

AllTrue(rs) == \A i \in DOMAIN rs : rs[i]

(* C1: the phases started in one execution are a prefix of RESEARCH, PLAN,
   BUILD, EXECUTE, FINALIZE (no skip, no repeat), and a phase is started
   only after every earlier phase returned success. *)
C1_PhasesInOrder ==
    /\ Len(started) <= Len(phases)
    /\ \A i \in DOMAIN started : started[i] = phases[i]
    /\ \A i \in DOMAIN started : \A j \in 1..(i - 1) : j \in DOMAIN results /\ results[j]

C1_Witness ==
    /\ pc = "done"
    /\ started = phases

AllFiveSucceeded == Len(results) = Len(phases) /\ AllTrue(results)

(* the execution was cut short by KeyboardInterrupt or the like, which is
   not the failure of a collaborator *)
Interrupted == ret = "interrupt"

(* C2 as stated: when execute_task ends, the stored status is completed
   if and only if all five phases returned success. *)
C2_CompletedIffAllSucceeded ==
    (pc = "done" /\ ~Interrupted) => (db[current_task_id].status = "completed" <=> AllFiveSucceeded)

(* C2 amended: when execute_task ends, the stored status is completed if
   and only if all five phases returned success and the store accepted the
   final status write. *)
C2_CompletedIffAllSucceededAndWritten ==
    pc = "done" =>
        (db[current_task_id].status = "completed" <=> (AllFiveSucceeded /\ completed_written))

C2_Witness ==
    /\ pc = "done"
    /\ db[current_task_id].status = "completed"
    /\ AllFiveSucceeded

(* C3: a phase never makes more than MAX_ITERATIONS model calls, and it
   returns failure only after exactly MAX_ITERATIONS calls. *)
C3_IterationBound ==
    /\ model_calls <= MAX_ITERATIONS
    /\ pc = "phase_failed" => model_calls = MAX_ITERATIONS

C3_Witness ==
    /\ pc = "phase_failed"
    /\ model_calls = MAX_ITERATIONS
    /\ results # <<>> /\ ~results[Len(results)]

(* C4 as stated: cleanup_sandbox is invoked exactly once per execution. *)
C4_CleanupExactlyOnce ==
    (pc = "done" /\ ~Interrupted) => cleanup_calls = 1

(* C4 amended: cleanup_sandbox is invoked at most once per execution, and
   exactly once in every execution that created a sandbox, whatever the
   outcome. *)
C4_CleanupOncePerCreatedSandbox ==
    pc = "done" =>
        /\ cleanup_calls <= 1
        /\ created # 0 => cleanup_calls = 1

C4_Witness ==
    /\ pc = "done"
    /\ created # 0
    /\ ret = "raise"
    /\ cleanup_calls = 1

InPhases == pc \in {"phase_update", "phase_start", "loop", "log_complete", "tool_call",
                    "phase_failed", "mark_completed"}

ActiveHandlesOf(t) == {h \in DOMAIN sandboxes : sandboxes[h].task = t /\ sandboxes[h].active}

(* the handle of the execution in progress is set up: it exists, is active,
   belongs to the task and is the one the sandbox tools are bound to *)
HandleInUse ==
    /\ created # 0 /\ current_container = created
    /\ sandboxes[created].task = current_task_id
    /\ sandboxes[created].active
    /\ \A n \in SandboxToolNames : tool_registry[n].container = created

(* C5 as stated: a task never has more than one active sandbox handle; the
   handle is created before the first phase starts and is active while the
   phases run; when the execution has ended, whatever its outcome, that
   handle is destroyed. *)
C5_HandleDestroyedWhateverOutcome ==
    /\ \A t \in Tasks : Cardinality(ActiveHandlesOf(t)) <= 1
    /\ started # <<>> => created # 0
    /\ InPhases => HandleInUse
    /\ (pc = "done" /\ created # 0 /\ ~Interrupted) => ~sandboxes[created].active

(* C5 amended: a task never has more than one active sandbox handle; the
   handle is created before the first phase starts and is active while the
   phases run; after the last phase activity, whatever the outcome,
   cleanup_sandbox is invoked once on that handle and on no other: the step
   either stops its container or, when docker refuses, leaves it as it is. *)
C5_OneSandboxPerTask ==
    /\ [](/\ \A t \in Tasks : Cardinality(ActiveHandlesOf(t)) <= 1
          /\ started # <<>> => created # 0
          /\ InPhases => HandleInUse
          /\ (pc = "done" /\ created # 0) => cleanup_calls = 1)
    /\ [][(pc = "finally" /\ pc' = "done" /\ created # 0) =>
            /\ current_container = created
            /\ cleanup_calls' = cleanup_calls + 1
            /\ \/ sandboxes' = sandboxes
               \/ sandboxes' = [sandboxes EXCEPT ![created].active = FALSE]]_vars

C5_Witness ==
    /\ pc = "done"
    /\ created # 0
    /\ started # <<>>
    /\ ~sandboxes[created].active

---------------------------------------------------------------------------
(* Strings whose characters matter (commands, paths, file contents) are
   sequences of code points. *)

(* A Python str is the sequence of the code points of its characters (ord
   of each).  The texts of this module are written as tuples of
   one-character literals; Ord gives the code point of such a literal and
   Str the string the tuple spells.  Printable lists the characters U+0020
   to U+005F in order, SmallLetters the letters U+0061 to U+007A. *)
Printable == <<
    " ", "!", "\"", "#", "$", "%", "&", "'", "(", ")", "*", "+", ",", "-", ".", "/",
    "0", "1", "2", "3", "4", "5", "6", "7", "8", "9", ":", ";", "<", "=", ">", "?",
    "@", "A", "B", "C", "D", "E", "F", "G", "H", "I", "J", "K", "L", "M", "N", "O",
    "P", "Q", "R", "S", "T", "U", "V", "W", "X", "Y", "Z", "[", "\\", "]", "^", "_" >>
SmallLetters == <<
    "a", "b", "c", "d", "e", "f", "g", "h", "i", "j", "k", "l", "m", "n", "o", "p",
    "q", "r", "s", "t", "u", "v", "w", "x", "y", "z" >>
OrdTable ==
    [ch \in {Printable[i] : i \in DOMAIN Printable}
            \cup {SmallLetters[i] : i \in DOMAIN SmallLetters} \cup {"\t", "\n"} |->
        IF ch = "\t" THEN 9
        ELSE IF ch = "\n" THEN 10
        ELSE IF \E i \in DOMAIN SmallLetters : SmallLetters[i] = ch
        THEN 96 + CHOOSE i \in DOMAIN SmallLetters : SmallLetters[i] = ch
        ELSE 31 + CHOOSE i \in DOMAIN Printable : Printable[i] = ch]
Ord(ch) == OrdTable[ch]
Str(chars) == [i \in DOMAIN chars |-> Ord(chars[i])]

(* config.py:48-56 *)
ALLOWED_COMMANDS == <<
    Str(<<"n", "p", "m">>),
    Str(<<"n", "o", "d", "e">>),
    Str(<<"p", "n", "p", "m">>),
    Str(<<"y", "a", "r", "n">>),
    Str(<<"p", "y", "t", "h", "o", "n">>),
    Str(<<"p", "y", "t", "h", "o", "n", "3">>),
    Str(<<"p", "i", "p">>),
    Str(<<"p", "i", "p", "3">>),
    Str(<<"g", "i", "t">>),
    Str(<<"g", "c", "c">>),
    Str(<<"g", "+", "+">>),
    Str(<<"m", "a", "k", "e">>),
    Str(<<"w", "r", "a", "n", "g", "l", "e", "r">>),
    Str(<<"n", "p", "x">>),
    Str(<<"t", "s", "c">>),
    Str(<<"l", "s">>),
    Str(<<"c", "a", "t">>),
    Str(<<"e", "c", "h", "o">>),
    Str(<<"m", "k", "d", "i", "r">>),
    Str(<<"c", "d">>),
    Str(<<"p", "w", "d">>),
    Str(<<"c", "p">>),
    Str(<<"m", "v">>),
    Str(<<"r", "m">>),
    Str(<<"t", "o", "u", "c", "h">>),
    Str(<<"c", "h", "m", "o", "d">>),
    Str(<<"g", "r", "e", "p">>),
    Str(<<"f", "i", "n", "d">>),
    Str(<<"s", "e", "d">>),
    Str(<<"a", "w", "k">>) >>

(* config.py:58-63 *)
BLOCKED_COMMANDS == <<
    Str(<<"s", "u", "d", "o">>),
    Str(<<"s", "u">>),
    Str(<<"p", "a", "s", "s", "w", "d">>),
    Str(<<"u", "s", "e", "r", "a", "d", "d">>),
    Str(<<"u", "s", "e", "r", "m", "o", "d">>),
    Str(<<"f", "d", "i", "s", "k">>),
    Str(<<"m", "k", "f", "s">>),
    Str(<<"m", "o", "u", "n", "t">>),
    Str(<<"u", "m", "o", "u", "n", "t">>),
    Str(<<"i", "p", "t", "a", "b", "l", "e", "s">>),
    Str(<<"n", "e", "t", "s", "t", "a", "t">>),
    Str(<<"i", "f", "c", "o", "n", "f", "i", "g">>),
    Str(<<"r", "e", "b", "o", "o", "t">>),
    Str(<<"s", "h", "u", "t", "d", "o", "w", "n">>),
    Str(<<"i", "n", "i", "t">>) >>

Elems(list) == {list[i] : i \in DOMAIN list}

InRanges(c, ranges) == \E k \in DOMAIN ranges : ranges[k][1] <= c /\ c <= ranges[k][2]

(* str.lower() of one character (sandbox.py:134, command.lower()), as
   CPython 3.11 computes it from the Unicode 14.0 tables: every rule
   <<first, last, step, delta>> says that the characters first, first +
   step, ..., last are capitals whose small letter lies delta code points
   further on.  The rules are in the order of the code points and no two
   of them overlap. *)
LowerRules == <<
    <<65, 90, 1, 32>>, <<192, 214, 1, 32>>, <<216, 222, 1, 32>>, <<256, 302, 2, 1>>,
    <<306, 310, 2, 1>>, <<313, 327, 2, 1>>, <<330, 374, 2, 1>>, <<376, 376, 1, -121>>,
    <<377, 381, 2, 1>>, <<385, 385, 1, 210>>, <<386, 388, 2, 1>>, <<390, 390, 1, 206>>,
    <<391, 391, 1, 1>>, <<393, 394, 1, 205>>, <<395, 395, 1, 1>>, <<398, 398, 1, 79>>,
    <<399, 399, 1, 202>>, <<400, 400, 1, 203>>, <<401, 401, 1, 1>>, <<403, 403, 1, 205>>,
    <<404, 404, 1, 207>>, <<406, 406, 1, 211>>, <<407, 407, 1, 209>>, <<408, 408, 1, 1>>,
    <<412, 412, 1, 211>>, <<413, 413, 1, 213>>, <<415, 415, 1, 214>>, <<416, 420, 2, 1>>,
    <<422, 422, 1, 218>>, <<423, 423, 1, 1>>, <<425, 425, 1, 218>>, <<428, 428, 1, 1>>,
    <<430, 430, 1, 218>>, <<431, 431, 1, 1>>, <<433, 434, 1, 217>>, <<435, 437, 2, 1>>,
    <<439, 439, 1, 219>>, <<440, 440, 1, 1>>, <<444, 444, 1, 1>>, <<452, 452, 1, 2>>,
    <<453, 453, 1, 1>>, <<455, 455, 1, 2>>, <<456, 456, 1, 1>>, <<458, 458, 1, 2>>,
    <<459, 475, 2, 1>>, <<478, 494, 2, 1>>, <<497, 497, 1, 2>>, <<498, 500, 2, 1>>,
    <<502, 502, 1, -97>>, <<503, 503, 1, -56>>, <<504, 542, 2, 1>>, <<544, 544, 1, -130>>,
    <<546, 562, 2, 1>>, <<570, 570, 1, 10795>>, <<571, 571, 1, 1>>, <<573, 573, 1, -163>>,
    <<574, 574, 1, 10792>>, <<577, 577, 1, 1>>, <<579, 579, 1, -195>>, <<580, 580, 1, 69>>,
    <<581, 581, 1, 71>>, <<582, 590, 2, 1>>, <<880, 882, 2, 1>>, <<886, 886, 1, 1>>,
    <<895, 895, 1, 116>>, <<902, 902, 1, 38>>, <<904, 906, 1, 37>>, <<908, 908, 1, 64>>,
    <<910, 911, 1, 63>>, <<913, 929, 1, 32>>, <<931, 939, 1, 32>>, <<975, 975, 1, 8>>,
    <<984, 1006, 2, 1>>, <<1012, 1012, 1, -60>>, <<1015, 1015, 1, 1>>, <<1017, 1017, 1, -7>>,
    <<1018, 1018, 1, 1>>, <<1021, 1023, 1, -130>>, <<1024, 1039, 1, 80>>, <<1040, 1071, 1, 32>>,
    <<1120, 1152, 2, 1>>, <<1162, 1214, 2, 1>>, <<1216, 1216, 1, 15>>, <<1217, 1229, 2, 1>>,
    <<1232, 1326, 2, 1>>, <<1329, 1366, 1, 48>>, <<4256, 4293, 1, 7264>>, <<4295, 4295, 1, 7264>>,
    <<4301, 4301, 1, 7264>>, <<5024, 5103, 1, 38864>>, <<5104, 5109, 1, 8>>, <<7312, 7354, 1, -3008>>,
    <<7357, 7359, 1, -3008>>, <<7680, 7828, 2, 1>>, <<7838, 7838, 1, -7615>>, <<7840, 7934, 2, 1>>,
    <<7944, 7951, 1, -8>>, <<7960, 7965, 1, -8>>, <<7976, 7983, 1, -8>>, <<7992, 7999, 1, -8>>,
    <<8008, 8013, 1, -8>>, <<8025, 8031, 2, -8>>, <<8040, 8047, 1, -8>>, <<8072, 8079, 1, -8>>,
    <<8088, 8095, 1, -8>>, <<8104, 8111, 1, -8>>, <<8120, 8121, 1, -8>>, <<8122, 8123, 1, -74>>,
    <<8124, 8124, 1, -9>>, <<8136, 8139, 1, -86>>, <<8140, 8140, 1, -9>>, <<8152, 8153, 1, -8>>,
    <<8154, 8155, 1, -100>>, <<8168, 8169, 1, -8>>, <<8170, 8171, 1, -112>>, <<8172, 8172, 1, -7>>,
    <<8184, 8185, 1, -128>>, <<8186, 8187, 1, -126>>, <<8188, 8188, 1, -9>>, <<8486, 8486, 1, -7517>>,
    <<8490, 8490, 1, -8383>>, <<8491, 8491, 1, -8262>>, <<8498, 8498, 1, 28>>, <<8544, 8559, 1, 16>>,
    <<8579, 8579, 1, 1>>, <<9398, 9423, 1, 26>>, <<11264, 11311, 1, 48>>, <<11360, 11360, 1, 1>>,
    <<11362, 11362, 1, -10743>>, <<11363, 11363, 1, -3814>>, <<11364, 11364, 1, -10727>>, <<11367, 11371, 2, 1>>,
    <<11373, 11373, 1, -10780>>, <<11374, 11374, 1, -10749>>, <<11375, 11375, 1, -10783>>, <<11376, 11376, 1, -10782>>,
    <<11378, 11378, 1, 1>>, <<11381, 11381, 1, 1>>, <<11390, 11391, 1, -10815>>, <<11392, 11490, 2, 1>>,
    <<11499, 11501, 2, 1>>, <<11506, 11506, 1, 1>>, <<42560, 42604, 2, 1>>, <<42624, 42650, 2, 1>>,
    <<42786, 42798, 2, 1>>, <<42802, 42862, 2, 1>>, <<42873, 42875, 2, 1>>, <<42877, 42877, 1, -35332>>,
    <<42878, 42886, 2, 1>>, <<42891, 42891, 1, 1>>, <<42893, 42893, 1, -42280>>, <<42896, 42898, 2, 1>>,
    <<42902, 42920, 2, 1>>, <<42922, 42922, 1, -42308>>, <<42923, 42923, 1, -42319>>, <<42924, 42924, 1, -42315>>,
    <<42925, 42925, 1, -42305>>, <<42926, 42926, 1, -42308>>, <<42928, 42928, 1, -42258>>, <<42929, 42929, 1, -42282>>,
    <<42930, 42930, 1, -42261>>, <<42931, 42931, 1, 928>>, <<42932, 42946, 2, 1>>, <<42948, 42948, 1, -48>>,
    <<42949, 42949, 1, -42307>>, <<42950, 42950, 1, -35384>>, <<42951, 42953, 2, 1>>, <<42960, 42960, 1, 1>>,
    <<42966, 42968, 2, 1>>, <<42997, 42997, 1, 1>>, <<65313, 65338, 1, 32>>, <<66560, 66599, 1, 40>>,
    <<66736, 66771, 1, 40>>, <<66928, 66938, 1, 39>>, <<66940, 66954, 1, 39>>, <<66956, 66962, 1, 39>>,
    <<66964, 66965, 1, 39>>, <<68736, 68786, 1, 64>>, <<71840, 71871, 1, 32>>, <<93760, 93791, 1, 32>>,
    <<125184, 125217, 1, 34>> >>

(* the table lookup: the last of the rules lo..hi that starts at or before
   c, one less than lo when there is none *)
RECURSIVE RuleAt(_, _, _)
RuleAt(c, lo, hi) ==
    IF lo > hi THEN lo - 1
    ELSE LET mid == (lo + hi) \div 2 IN
         IF LowerRules[mid][1] <= c THEN RuleAt(c, mid + 1, hi)
         ELSE RuleAt(c, lo, mid - 1)

(* U+0130, LATIN CAPITAL LETTER I WITH DOT ABOVE, is the one character whose
   lowercase form has two characters: i and U+0307 *)
LowerChar(c) ==
    IF c = 304 THEN <<105, 775>>
    ELSE LET k == RuleAt(c, 1, Len(LowerRules)) IN
         IF /\ k # 0
            /\ c <= LowerRules[k][2]
            /\ (c - LowerRules[k][1]) % LowerRules[k][3] = 0
         THEN <<c + LowerRules[k][4]>>
         ELSE <<c>>

(* The cased characters and the case-ignorable characters of the Unicode
   tables (_PyUnicode_IsCased, _PyUnicode_IsCaseIgnorable), as ranges
   <<first, last>>.  str.lower() looks at them around a capital sigma only,
   and asks whether a character is cased only when it is not
   case-ignorable: CasedRanges lists the cased characters that are not
   case-ignorable. *)
CasedRanges == <<
    <<65, 90>>, <<97, 122>>, <<170, 170>>, <<181, 181>>, <<186, 186>>, <<192, 214>>,
    <<216, 246>>, <<248, 442>>, <<444, 447>>, <<452, 659>>, <<661, 687>>, <<880, 883>>,
    <<886, 887>>, <<891, 893>>, <<895, 895>>, <<902, 902>>, <<904, 906>>, <<908, 908>>,
    <<910, 929>>, <<931, 1013>>, <<1015, 1153>>, <<1162, 1327>>, <<1329, 1366>>, <<1376, 1416>>,
    <<4256, 4293>>, <<4295, 4295>>, <<4301, 4301>>, <<4304, 4346>>, <<4349, 4351>>, <<5024, 5109>>,
    <<5112, 5117>>, <<7296, 7304>>, <<7312, 7354>>, <<7357, 7359>>, <<7424, 7467>>, <<7531, 7543>>,
    <<7545, 7578>>, <<7680, 7957>>, <<7960, 7965>>, <<7968, 8005>>, <<8008, 8013>>, <<8016, 8023>>,
    <<8025, 8025>>, <<8027, 8027>>, <<8029, 8029>>, <<8031, 8061>>, <<8064, 8116>>, <<8118, 8124>>,
    <<8126, 8126>>, <<8130, 8132>>, <<8134, 8140>>, <<8144, 8147>>, <<8150, 8155>>, <<8160, 8172>>,
    <<8178, 8180>>, <<8182, 8188>>, <<8450, 8450>>, <<8455, 8455>>, <<8458, 8467>>, <<8469, 8469>>,
    <<8473, 8477>>, <<8484, 8484>>, <<8486, 8486>>, <<8488, 8488>>, <<8490, 8493>>, <<8495, 8500>>,
    <<8505, 8505>>, <<8508, 8511>>, <<8517, 8521>>, <<8526, 8526>>, <<8544, 8575>>, <<8579, 8580>>,
    <<9398, 9449>>, <<11264, 11387>>, <<11390, 11492>>, <<11499, 11502>>, <<11506, 11507>>, <<11520, 11557>>,
    <<11559, 11559>>, <<11565, 11565>>, <<42560, 42605>>, <<42624, 42651>>, <<42786, 42863>>, <<42865, 42887>>,
    <<42891, 42894>>, <<42896, 42954>>, <<42960, 42961>>, <<42963, 42963>>, <<42965, 42969>>, <<42997, 42998>>,
    <<43002, 43002>>, <<43824, 43866>>, <<43872, 43880>>, <<43888, 43967>>, <<64256, 64262>>, <<64275, 64279>>,
    <<65313, 65338>>, <<65345, 65370>>, <<66560, 66639>>, <<66736, 66771>>, <<66776, 66811>>, <<66928, 66938>>,
    <<66940, 66954>>, <<66956, 66962>>, <<66964, 66965>>, <<66967, 66977>>, <<66979, 66993>>, <<66995, 67001>>,
    <<67003, 67004>>, <<68736, 68786>>, <<68800, 68850>>, <<71840, 71903>>, <<93760, 93823>>, <<119808, 119892>>,
    <<119894, 119964>>, <<119966, 119967>>, <<119970, 119970>>, <<119973, 119974>>, <<119977, 119980>>, <<119982, 119993>>,
    <<119995, 119995>>, <<119997, 120003>>, <<120005, 120069>>, <<120071, 120074>>, <<120077, 120084>>, <<120086, 120092>>,
    <<120094, 120121>>, <<120123, 120126>>, <<120128, 120132>>, <<120134, 120134>>, <<120138, 120144>>, <<120146, 120485>>,
    <<120488, 120512>>, <<120514, 120538>>, <<120540, 120570>>, <<120572, 120596>>, <<120598, 120628>>, <<120630, 120654>>,
    <<120656, 120686>>, <<120688, 120712>>, <<120714, 120744>>, <<120746, 120770>>, <<120772, 120779>>, <<122624, 122633>>,
    <<122635, 122654>>, <<125184, 125251>>, <<127280, 127305>>, <<127312, 127337>>, <<127344, 127369>> >>

CaseIgnorableRanges == <<
    <<39, 39>>, <<46, 46>>, <<58, 58>>, <<94, 94>>, <<96, 96>>, <<168, 168>>,
    <<173, 173>>, <<175, 175>>, <<180, 180>>, <<183, 184>>, <<688, 879>>, <<884, 885>>,
    <<890, 890>>, <<900, 901>>, <<903, 903>>, <<1155, 1161>>, <<1369, 1369>>, <<1375, 1375>>,
    <<1425, 1469>>, <<1471, 1471>>, <<1473, 1474>>, <<1476, 1477>>, <<1479, 1479>>, <<1524, 1524>>,
    <<1536, 1541>>, <<1552, 1562>>, <<1564, 1564>>, <<1600, 1600>>, <<1611, 1631>>, <<1648, 1648>>,
    <<1750, 1757>>, <<1759, 1768>>, <<1770, 1773>>, <<1807, 1807>>, <<1809, 1809>>, <<1840, 1866>>,
    <<1958, 1968>>, <<2027, 2037>>, <<2042, 2042>>, <<2045, 2045>>, <<2070, 2093>>, <<2137, 2139>>,
    <<2184, 2184>>, <<2192, 2193>>, <<2200, 2207>>, <<2249, 2306>>, <<2362, 2362>>, <<2364, 2364>>,
    <<2369, 2376>>, <<2381, 2381>>, <<2385, 2391>>, <<2402, 2403>>, <<2417, 2417>>, <<2433, 2433>>,
    <<2492, 2492>>, <<2497, 2500>>, <<2509, 2509>>, <<2530, 2531>>, <<2558, 2558>>, <<2561, 2562>>,
    <<2620, 2620>>, <<2625, 2626>>, <<2631, 2632>>, <<2635, 2637>>, <<2641, 2641>>, <<2672, 2673>>,
    <<2677, 2677>>, <<2689, 2690>>, <<2748, 2748>>, <<2753, 2757>>, <<2759, 2760>>, <<2765, 2765>>,
    <<2786, 2787>>, <<2810, 2815>>, <<2817, 2817>>, <<2876, 2876>>, <<2879, 2879>>, <<2881, 2884>>,
    <<2893, 2893>>, <<2901, 2902>>, <<2914, 2915>>, <<2946, 2946>>, <<3008, 3008>>, <<3021, 3021>>,
    <<3072, 3072>>, <<3076, 3076>>, <<3132, 3132>>, <<3134, 3136>>, <<3142, 3144>>, <<3146, 3149>>,
    <<3157, 3158>>, <<3170, 3171>>, <<3201, 3201>>, <<3260, 3260>>, <<3263, 3263>>, <<3270, 3270>>,
    <<3276, 3277>>, <<3298, 3299>>, <<3328, 3329>>, <<3387, 3388>>, <<3393, 3396>>, <<3405, 3405>>,
    <<3426, 3427>>, <<3457, 3457>>, <<3530, 3530>>, <<3538, 3540>>, <<3542, 3542>>, <<3633, 3633>>,
    <<3636, 3642>>, <<3654, 3662>>, <<3761, 3761>>, <<3764, 3772>>, <<3782, 3782>>, <<3784, 3789>>,
    <<3864, 3865>>, <<3893, 3893>>, <<3895, 3895>>, <<3897, 3897>>, <<3953, 3966>>, <<3968, 3972>>,
    <<3974, 3975>>, <<3981, 3991>>, <<3993, 4028>>, <<4038, 4038>>, <<4141, 4144>>, <<4146, 4151>>,
    <<4153, 4154>>, <<4157, 4158>>, <<4184, 4185>>, <<4190, 4192>>, <<4209, 4212>>, <<4226, 4226>>,
    <<4229, 4230>>, <<4237, 4237>>, <<4253, 4253>>, <<4348, 4348>>, <<4957, 4959>>, <<5906, 5908>>,
    <<5938, 5939>>, <<5970, 5971>>, <<6002, 6003>>, <<6068, 6069>>, <<6071, 6077>>, <<6086, 6086>>,
    <<6089, 6099>>, <<6103, 6103>>, <<6109, 6109>>, <<6155, 6159>>, <<6211, 6211>>, <<6277, 6278>>,
    <<6313, 6313>>, <<6432, 6434>>, <<6439, 6440>>, <<6450, 6450>>, <<6457, 6459>>, <<6679, 6680>>,
    <<6683, 6683>>, <<6742, 6742>>, <<6744, 6750>>, <<6752, 6752>>, <<6754, 6754>>, <<6757, 6764>>,
    <<6771, 6780>>, <<6783, 6783>>, <<6823, 6823>>, <<6832, 6862>>, <<6912, 6915>>, <<6964, 6964>>,
    <<6966, 6970>>, <<6972, 6972>>, <<6978, 6978>>, <<7019, 7027>>, <<7040, 7041>>, <<7074, 7077>>,
    <<7080, 7081>>, <<7083, 7085>>, <<7142, 7142>>, <<7144, 7145>>, <<7149, 7149>>, <<7151, 7153>>,
    <<7212, 7219>>, <<7222, 7223>>, <<7288, 7293>>, <<7376, 7378>>, <<7380, 7392>>, <<7394, 7400>>,
    <<7405, 7405>>, <<7412, 7412>>, <<7416, 7417>>, <<7468, 7530>>, <<7544, 7544>>, <<7579, 7679>>,
    <<8125, 8125>>, <<8127, 8129>>, <<8141, 8143>>, <<8157, 8159>>, <<8173, 8175>>, <<8189, 8190>>,
    <<8203, 8207>>, <<8216, 8217>>, <<8228, 8228>>, <<8231, 8231>>, <<8234, 8238>>, <<8288, 8292>>,
    <<8294, 8303>>, <<8305, 8305>>, <<8319, 8319>>, <<8336, 8348>>, <<8400, 8432>>, <<11388, 11389>>,
    <<11503, 11505>>, <<11631, 11631>>, <<11647, 11647>>, <<11744, 11775>>, <<11823, 11823>>, <<12293, 12293>>,
    <<12330, 12333>>, <<12337, 12341>>, <<12347, 12347>>, <<12441, 12446>>, <<12540, 12542>>, <<40981, 40981>>,
    <<42232, 42237>>, <<42508, 42508>>, <<42607, 42610>>, <<42612, 42621>>, <<42623, 42623>>, <<42652, 42655>>,
    <<42736, 42737>>, <<42752, 42785>>, <<42864, 42864>>, <<42888, 42890>>, <<42994, 42996>>, <<43000, 43001>>,
    <<43010, 43010>>, <<43014, 43014>>, <<43019, 43019>>, <<43045, 43046>>, <<43052, 43052>>, <<43204, 43205>>,
    <<43232, 43249>>, <<43263, 43263>>, <<43302, 43309>>, <<43335, 43345>>, <<43392, 43394>>, <<43443, 43443>>,
    <<43446, 43449>>, <<43452, 43453>>, <<43471, 43471>>, <<43493, 43494>>, <<43561, 43566>>, <<43569, 43570>>,
    <<43573, 43574>>, <<43587, 43587>>, <<43596, 43596>>, <<43632, 43632>>, <<43644, 43644>>, <<43696, 43696>>,
    <<43698, 43700>>, <<43703, 43704>>, <<43710, 43711>>, <<43713, 43713>>, <<43741, 43741>>, <<43756, 43757>>,
    <<43763, 43764>>, <<43766, 43766>>, <<43867, 43871>>, <<43881, 43883>>, <<44005, 44005>>, <<44008, 44008>>,
    <<44013, 44013>>, <<64286, 64286>>, <<64434, 64450>>, <<65024, 65039>>, <<65043, 65043>>, <<65056, 65071>>,
    <<65106, 65106>>, <<65109, 65109>>, <<65279, 65279>>, <<65287, 65287>>, <<65294, 65294>>, <<65306, 65306>>,
    <<65342, 65342>>, <<65344, 65344>>, <<65392, 65392>>, <<65438, 65439>>, <<65507, 65507>>, <<65529, 65531>>,
    <<66045, 66045>>, <<66272, 66272>>, <<66422, 66426>>, <<67456, 67461>>, <<67463, 67504>>, <<67506, 67514>>,
    <<68097, 68099>>, <<68101, 68102>>, <<68108, 68111>>, <<68152, 68154>>, <<68159, 68159>>, <<68325, 68326>>,
    <<68900, 68903>>, <<69291, 69292>>, <<69446, 69456>>, <<69506, 69509>>, <<69633, 69633>>, <<69688, 69702>>,
    <<69744, 69744>>, <<69747, 69748>>, <<69759, 69761>>, <<69811, 69814>>, <<69817, 69818>>, <<69821, 69821>>,
    <<69826, 69826>>, <<69837, 69837>>, <<69888, 69890>>, <<69927, 69931>>, <<69933, 69940>>, <<70003, 70003>>,
    <<70016, 70017>>, <<70070, 70078>>, <<70089, 70092>>, <<70095, 70095>>, <<70191, 70193>>, <<70196, 70196>>,
    <<70198, 70199>>, <<70206, 70206>>, <<70367, 70367>>, <<70371, 70378>>, <<70400, 70401>>, <<70459, 70460>>,
    <<70464, 70464>>, <<70502, 70508>>, <<70512, 70516>>, <<70712, 70719>>, <<70722, 70724>>, <<70726, 70726>>,
    <<70750, 70750>>, <<70835, 70840>>, <<70842, 70842>>, <<70847, 70848>>, <<70850, 70851>>, <<71090, 71093>>,
    <<71100, 71101>>, <<71103, 71104>>, <<71132, 71133>>, <<71219, 71226>>, <<71229, 71229>>, <<71231, 71232>>,
    <<71339, 71339>>, <<71341, 71341>>, <<71344, 71349>>, <<71351, 71351>>, <<71453, 71455>>, <<71458, 71461>>,
    <<71463, 71467>>, <<71727, 71735>>, <<71737, 71738>>, <<71995, 71996>>, <<71998, 71998>>, <<72003, 72003>>,
    <<72148, 72151>>, <<72154, 72155>>, <<72160, 72160>>, <<72193, 72202>>, <<72243, 72248>>, <<72251, 72254>>,
    <<72263, 72263>>, <<72273, 72278>>, <<72281, 72283>>, <<72330, 72342>>, <<72344, 72345>>, <<72752, 72758>>,
    <<72760, 72765>>, <<72767, 72767>>, <<72850, 72871>>, <<72874, 72880>>, <<72882, 72883>>, <<72885, 72886>>,
    <<73009, 73014>>, <<73018, 73018>>, <<73020, 73021>>, <<73023, 73029>>, <<73031, 73031>>, <<73104, 73105>>,
    <<73109, 73109>>, <<73111, 73111>>, <<73459, 73460>>, <<78896, 78904>>, <<92912, 92916>>, <<92976, 92982>>,
    <<92992, 92995>>, <<94031, 94031>>, <<94095, 94111>>, <<94176, 94177>>, <<94179, 94180>>, <<110576, 110579>>,
    <<110581, 110587>>, <<110589, 110590>>, <<113821, 113822>>, <<113824, 113827>>, <<118528, 118573>>, <<118576, 118598>>,
    <<119143, 119145>>, <<119155, 119170>>, <<119173, 119179>>, <<119210, 119213>>, <<119362, 119364>>, <<121344, 121398>>,
    <<121403, 121452>>, <<121461, 121461>>, <<121476, 121476>>, <<121499, 121503>>, <<121505, 121519>>, <<122880, 122886>>,
    <<122888, 122904>>, <<122907, 122913>>, <<122915, 122916>>, <<122918, 122922>>, <<123184, 123197>>, <<123566, 123566>>,
    <<123628, 123631>>, <<125136, 125142>>, <<125252, 125259>>, <<127995, 127999>>, <<917505, 917505>>, <<917536, 917631>>,
    <<917760, 917999>> >>

IsCased(c) == InRanges(c, CasedRanges)
IsCaseIgnorable(c) == InRanges(c, CaseIgnorableRanges)

(* handle_capital_sigma of str.lower(): the capital sigma U+03A3 at s[i]
   becomes the final sigma U+03C2 when the nearest character before it that
   is not case-ignorable is cased and the nearest such character after it,
   if any, is not cased; otherwise it becomes U+03C3 *)
FinalSigma(s, i) ==
    LET before == {j \in 1..(i - 1) : ~IsCaseIgnorable(s[j])}
        after == {j \in (i + 1)..Len(s) : ~IsCaseIgnorable(s[j])}
    IN /\ before # {}
       /\ IsCased(s[CHOOSE j \in before : \A k \in before : k <= j])
       /\ after = {} \/ ~IsCased(s[CHOOSE j \in after : \A k \in after : j <= k])

RECURSIVE LowerFrom(_, _)
LowerFrom(s, i) ==
    IF i > Len(s) THEN <<>>
    ELSE (IF s[i] = 931 THEN <<IF FinalSigma(s, i) THEN 962 ELSE 963>>
          ELSE LowerChar(s[i])) \o LowerFrom(s, i + 1)

(* str.lower() *)
Lower(s) == LowerFrom(s, 1)

(* Python `sub in s` on strings *)
In(sub, s) ==
    \E i \in 0..(Len(s) - Len(sub)) : \A k \in DOMAIN sub : s[i + k] = sub[k]

StartsWith(s, prefix) ==
    Len(prefix) <= Len(s) /\ SubSeq(s, 1, Len(prefix)) = prefix

(* the characters str.strip() and str.split() treat as whitespace
   (Py_UNICODE_ISSPACE, what str.isspace() accepts) *)
Whitespace ==
    (9..13) \cup (28..32) \cup {133, 160, 5760} \cup (8192..8202)
        \cup {8232, 8233, 8239, 8287, 12288}

RECURSIVE LStrip(_)
LStrip(s) == IF s # <<>> /\ Head(s) \in Whitespace THEN LStrip(Tail(s)) ELSE s
RECURSIVE RStrip(_)
RStrip(s) ==
    IF s # <<>> /\ s[Len(s)] \in Whitespace THEN RStrip(SubSeq(s, 1, Len(s) - 1)) ELSE s
Strip(s) == RStrip(LStrip(s))

RECURSIVE TakeWord(_)
TakeWord(s) ==
    IF s = <<>> \/ Head(s) \in Whitespace THEN <<>> ELSE <<Head(s)>> \o TakeWord(Tail(s))

(* str.split() without argument: the maximal runs of non-whitespace *)
RECURSIVE Split(_)
Split(s) ==
    LET t == LStrip(s)
        w == TakeWord(t)
    IN IF t = <<>> THEN <<>> ELSE <<w>> \o Split(SubSeq(t, Len(w) + 1, Len(t)))

(* str.split(sep) with a one-character separator: empty pieces are kept *)
RECURSIVE SplitOn(_, _)
SplitOn(s, sep) ==
    IF \E i \in DOMAIN s : s[i] = sep
    THEN LET i == CHOOSE k \in DOMAIN s : s[k] = sep /\ \A j \in 1..(k - 1) : s[j] # sep
         IN <<SubSeq(s, 1, i - 1)>> \o SplitOn(SubSeq(s, i + 1, Len(s)), sep)
    ELSE <<s>>

(* str.replace(old, new) with a one-character old *)
RECURSIVE Replace(_, _, _)
Replace(s, old, new) ==
    IF s = <<>> THEN <<>>
    ELSE (IF Head(s) = old THEN new ELSE <<Head(s)>>) \o Replace(Tail(s), old, new)

(* sandbox.py:122-150 with the blocked list compared to the command as
   typed instead of its lowercase form *)
IsCommandAllowedCaseSensitive(command) ==
    IF \E blocked \in Elems(BLOCKED_COMMANDS) : In(blocked, command) THEN FALSE
    ELSE LET cmd_parts == Split(Strip(command)) IN
         IF cmd_parts = <<>> THEN FALSE
         ELSE LET segments == SplitOn(cmd_parts[1], Ord("/"))
                  first_cmd == segments[Len(segments)]
              IN IF first_cmd \notin Elems(ALLOWED_COMMANDS) THEN FALSE ELSE TRUE

(* sandbox.py:122-150 SandboxManager._is_command_allowed *)
IsCommandAllowed(command) ==
    LET lowered == Lower(command) IN
    IF \E blocked \in Elems(BLOCKED_COMMANDS) : In(blocked, lowered) THEN FALSE
    ELSE LET cmd_parts == Split(Strip(command)) IN
         IF cmd_parts = <<>> THEN FALSE
         ELSE LET segments == SplitOn(cmd_parts[1], Ord("/"))
                  first_cmd == segments[Len(segments)]
              IN IF first_cmd \notin Elems(ALLOWED_COMMANDS) THEN FALSE ELSE TRUE

(* what container.exec_run does with an accepted command *)
DockerOutcomes == {"exit0", "exit1", "raise"}

(* sandbox.py:78-120 with the validation of line 99 left out *)
ExecCommandUnchecked(command, docker) ==
    IF docker = "raise"
    THEN [exit_code |-> 1, stdout |-> "", stderr |-> "exception", exec_run |-> <<command>>]
    ELSE [exit_code |-> IF docker = "exit0" THEN 0 ELSE 1,
          stdout |-> IF docker = "exit0" THEN "stdout" ELSE "",
          stderr |-> IF docker = "exit0" THEN "" ELSE "stderr",
          exec_run |-> <<command>>]

(* exec_command with a handler that reports exit code 0 for an exception *)
ExecCommandExceptionAsSuccess(command, docker) ==
    IF ~IsCommandAllowed(command)
    THEN [exit_code |-> 1, stdout |-> "", stderr |-> "Command not allowed",
          exec_run |-> <<>>]
    ELSE IF docker = "raise"
    THEN [exit_code |-> 0, stdout |-> "", stderr |-> "exception",
          exec_run |-> <<command>>]
    ELSE [exit_code |-> IF docker = "exit0" THEN 0 ELSE 1,
          stdout |-> IF docker = "exit0" THEN "stdout" ELSE "",
          stderr |-> IF docker = "exit0" THEN "" ELSE "stderr",
          exec_run |-> <<command>>]

(* sandbox.py:78-120 SandboxManager.exec_command; exec_run lists what was
   handed to container.exec_run, stderr is the third element of the tuple
   returned: what the command wrote, or the text of the exception caught *)
ExecCommand(command, docker) ==
    IF ~IsCommandAllowed(command)
    THEN [exit_code |-> 1, stdout |-> "", stderr |-> "Command not allowed",
          exec_run |-> <<>>]                                            \* lines 100, 118-120
    ELSE IF docker = "raise"
    THEN [exit_code |-> 1, stdout |-> "", stderr |-> "exception",
          exec_run |-> <<command>>]                                     \* lines 103, 118-120
    ELSE [exit_code |-> IF docker = "exit0" THEN 0 ELSE 1,
          stdout |-> IF docker = "exit0" THEN "stdout" ELSE "",
          stderr |-> IF docker = "exit0" THEN "" ELSE "stderr",
          exec_run |-> <<command>>]

(* sandbox.py:165 and 202 with only whole ".." segments refused *)
InvalidFilePathSegments(file_path) ==
    \/ Str(<<".", ".">>) \in Elems(SplitOn(file_path, Ord("/")))
    \/ StartsWith(file_path, Str(<<"/">>))

(* sandbox.py:165 and 202: ".." in file_path or file_path.startswith("/") *)
InvalidFilePath(file_path) ==
    In(Str(<<".", ".">>), file_path) \/ StartsWith(file_path, Str(<<"/">>))

(* sandbox.py:170 f"cat {file_path}" *)
CatCmd(file_path) == Str(<<"c", "a", "t", " ">>) \o file_path

(* sandbox.py:152-181 SandboxManager.read_file; commands lists what was
   given to exec_command *)
ReadFile(file_path, docker) ==
    IF InvalidFilePath(file_path)
    THEN [value |-> "None", commands |-> <<>>, exec_run |-> <<>>]
    ELSE LET r == ExecCommand(CatCmd(file_path), docker) IN
         [value |-> IF r.exit_code = 0 THEN r.stdout ELSE "None",
          commands |-> <<CatCmd(file_path)>>,
          exec_run |-> r.exec_run]

(* os.path.dirname *)
Dirname(path) ==
    LET slashes == {k \in DOMAIN path : path[k] = Ord("/")}
        i == IF slashes = {} THEN 0 ELSE CHOOSE k \in slashes : \A j \in slashes : j <= k
        head == SubSeq(path, 1, i)
        kept == {k \in DOMAIN head : head[k] # Ord("/")}
    IN IF kept = {} THEN head
       ELSE SubSeq(head, 1, CHOOSE k \in kept : \A j \in kept : j <= k)

(* sandbox.py:206 content.replace("'", "'\\''") *)
EscapeQuotes(content) == Replace(content, Ord("'"), Str(<<"'", "\\", "'", "'">>))

(* sandbox.py:211 f"mkdir -p {dir_path}" *)
MkdirCmd(dir_path) == Str(<<"m", "k", "d", "i", "r", " ", "-", "p", " ">>) \o dir_path

(* sandbox.py:216 the here-document that writes the file *)
HeredocCmd(file_path, escaped_content) ==
    Str(<<"c", "a", "t", " ", ">", " ">>) \o file_path \o Str(<<" ", "<", "<", " ", "'", "M", "O", "R", "G", "U", "S", "_", "E", "O", "F", "'", "\n">>)
        \o escaped_content \o Str(<<"\n", "M", "O", "R", "G", "U", "S", "_", "E", "O", "F">>)

(* sandbox.py:183-223 SandboxManager.write_file *)
WriteFile(file_path, content, docker_mkdir, docker_cat) ==
    IF InvalidFilePath(file_path)
    THEN [value |-> "False", commands |-> <<>>, exec_run |-> <<>>]
    ELSE LET dir_path == Dirname(file_path)
             mk == ExecCommand(MkdirCmd(dir_path), docker_mkdir)
             cmd == HeredocCmd(file_path, EscapeQuotes(content))
             wr == ExecCommand(cmd, docker_cat)
         IN [value |-> IF wr.exit_code = 0 THEN "True" ELSE "False",
             commands |-> (IF dir_path # <<>> THEN <<MkdirCmd(dir_path)>> ELSE <<>>) \o <<cmd>>,
             exec_run |-> (IF dir_path # <<>> THEN mk.exec_run ELSE <<>>) \o wr.exec_run]

(* sandbox.py:239 f"ls -la {directory}" *)
LsCmd(directory) == Str(<<"l", "s", " ", "-", "l", "a", " ">>) \o directory

(* sandbox.py:225-249 SandboxManager.list_files *)
ListFiles(directory, docker) ==
    LET r == ExecCommand(LsCmd(directory), docker) IN
    [value |-> IF r.exit_code = 0 THEN r.stdout ELSE "None",
     commands |-> <<LsCmd(directory)>>,
     exec_run |-> r.exec_run]

---------------------------------------------------------------------------
(* The sandbox tools, each applied to one request (SpecSandbox).  sb_op is
   the request, sb_out what the tool returned, exec_log the commands handed
   to container.exec_run on the way. *)

MaxCmdLen == 5
MaxPathLen == 4

(* letters of an allowed command and of a blocked token in both cases, the
   path separator, and two of the whitespace characters: the space and the
   vertical tab U+000B (code point 11) *)
CmdAlphabet == {Ord("l"), Ord("s"), Ord("u"), Ord("S"), Ord("/"), Ord(" "), 11}
PathAlphabet == {Ord("."), Ord("/"), Ord("a")}

Commands == SeqsUpTo(CmdAlphabet, MaxCmdLen)
Paths == SeqsUpTo(PathAlphabet, MaxPathLen)
(* file contents and commit messages: empty, plain, with a single quote,
   with a new line, with a blocked token inside a word *)
Contents == {<<>>,
             Str(<<"h", "i">>),
             Str(<<"i", "t", "'", "s">>),
             Str(<<"a", "\n", "b">>),
             Str(<<"r", "e", "s", "u", "l", "t">>)}
Names == {Str(<<"o", "r", "i", "g", "i", "n">>),
          Str(<<"m", "a", "i", "n">>),
          Str(<<"d", "i", "s", "t">>),
          Str(<<"i", "s", "s", "u", "e">>)}

(* config.py:29 *)
CLOUDFLARE_PROJECT_NAME == Str(<<"m", "o", "r", "g", "u", "s", "-", "d", "e", "p", "l", "o", "y">>)

(* git_tools.py:44 *)
GIT_INIT_CMD ==
    Str(<<"g", "i", "t", " ", "i", "n", "i", "t", " ", "&", "&", " ", "g", "i", "t", " ", "c", "o", "n", "f", "i", "g", " ", "u", "s", "e", "r", ".", "n", "a", "m", "e", " ", "'", "M", "o", "r", "g", "u", "s", " ", "A", "g", "e", "n", "t", "'">>)
        \o Str(<<" ", "&", "&", " ", "g", "i", "t", " ", "c", "o", "n", "f", "i", "g", " ", "u", "s", "e", "r", ".", "e", "m", "a", "i", "l", " ", "'", "m", "o", "r", "g", "u", "s", "@", "g", "o", "4", "m", "e", ".", "a", "i", "'">>)
(* git_tools.py:85 *)
GIT_ADD_CMD == Str(<<"g", "i", "t", " ", "a", "d", "d", " ", ".">>)
(* git_tools.py:130-134 *)
GitCommitCmd(message) ==
    Str(<<"g", "i", "t", " ", "c", "o", "m", "m", "i", "t", " ", "-", "m", " ", "'">>) \o EscapeQuotes(message) \o Str(<<"'">>)
(* git_tools.py:186 *)
GitPushCmd(remote, branch) ==
    Str(<<"g", "i", "t", " ", "p", "u", "s", "h", " ">>) \o remote \o Str(<<" ">>) \o branch
(* deploy_tools.py:56-61 *)
DeployCmd(directory, project_name) ==
    Str(<<"n", "p", "x", " ", "w", "r", "a", "n", "g", "l", "e", "r", " ", "p", "a", "g", "e", "s", " ", "p", "u", "b", "l", "i", "s", "h", " ">>) \o directory \o Str(<<" ", "-", "-", "p", "r", "o", "j", "e", "c", "t", "-", "n", "a", "m", "e", "=">>)
        \o (IF project_name = <<>> THEN CLOUDFLARE_PROJECT_NAME ELSE project_name)

SandboxInit ==
    /\ \/ \E c \in Commands : sb_op = [tool |-> "shell_exec", command |-> c]
       \/ \E p \in Paths : sb_op = [tool |-> "file_read", path |-> p]
       \/ \E p \in Paths, c \in Contents :
            sb_op = [tool |-> "file_write", path |-> p, content |-> c]
       \/ \E p \in Paths : sb_op = [tool |-> "file_list", path |-> p]
       \/ sb_op = [tool |-> "git_init"]
       \/ sb_op = [tool |-> "git_add"]
       \/ \E m \in Contents : sb_op = [tool |-> "git_commit", message |-> m]
       \/ \E r \in Names, b \in Names :
            sb_op = [tool |-> "git_push", remote |-> r, branch |-> b]
       \/ \E d \in Names, n \in Names \cup {<<>>} :
            sb_op = [tool |-> "cloudflare_deploy", directory |-> d, project_name |-> n]
    /\ sb_out = NoResult
    /\ exec_log = <<>>

Requested(tool) == sb_op.tool = tool /\ ~sb_out.returned

(* a tool whose execute is one exec_command call *)
RunCommand(command, success, failure) ==
    \E docker \in DockerOutcomes :
        LET r == ExecCommand(command, docker) IN
        /\ sb_out' = [returned |-> TRUE,
                      result |-> IF r.exit_code = 0 THEN success ELSE failure,
                      exit_code |-> r.exit_code,
                      commands |-> <<command>>]
        /\ exec_log' = exec_log \o r.exec_run
        /\ UNCHANGED sb_op

(* shell_tools.py:51-70 ShellExecTool.execute *)
ShellExecTool ==
    /\ Requested("shell_exec")
    /\ RunCommand(sb_op.command, "Exit code: 0", "Exit code: 1")

(* file_tools.py:46-55 FileReadTool.execute *)
FileReadTool ==
    /\ Requested("file_read")
    /\ \E docker \in DockerOutcomes :
        LET r == ReadFile(sb_op.path, docker) IN
        /\ sb_out' = [returned |-> TRUE,
                      result |-> IF r.value = "None" THEN "Error: Could not read file"
                                 ELSE r.value,
                      value |-> r.value, commands |-> r.commands]
        /\ exec_log' = exec_log \o r.exec_run
    /\ UNCHANGED sb_op

(* file_tools.py:96-101 FileWriteTool.execute *)
FileWriteTool ==
    /\ Requested("file_write")
    /\ \E docker_mkdir \in DockerOutcomes, docker_cat \in DockerOutcomes :
        LET r == WriteFile(sb_op.path, sb_op.content, docker_mkdir, docker_cat) IN
        /\ sb_out' = [returned |-> TRUE,
                      result |-> IF r.value = "True" THEN "Successfully wrote"
                                 ELSE "Error: Failed to write",
                      value |-> r.value, commands |-> r.commands]
        /\ exec_log' = exec_log \o r.exec_run
    /\ UNCHANGED sb_op

(* file_tools.py:139-143 FileListTool.execute *)
FileListTool ==
    /\ Requested("file_list")
    /\ \E docker \in DockerOutcomes :
        LET r == ListFiles(sb_op.path, docker) IN
        /\ sb_out' = [returned |-> TRUE,
                      result |-> IF r.value = "None" THEN "Error: Could not list directory"
                                 ELSE r.value,
                      value |-> r.value, commands |-> r.commands]
        /\ exec_log' = exec_log \o r.exec_run
    /\ UNCHANGED sb_op

(* git_tools.py:41-50 GitInitTool.execute *)
GitInitTool ==
    /\ Requested("git_init")
    /\ RunCommand(GIT_INIT_CMD, "Git repository initialized successfully",
                  "Error initializing git")

(* git_tools.py:82-91 GitAddTool.execute *)
GitAddTool ==
    /\ Requested("git_add")
    /\ RunCommand(GIT_ADD_CMD, "All changes staged successfully", "Error staging changes")

(* git_tools.py:128-140 GitCommitTool.execute *)
GitCommitTool ==
    /\ Requested("git_commit")
    /\ RunCommand(GitCommitCmd(sb_op.message), "Committed successfully", "Error committing")

(* git_tools.py:183-192 GitPushTool.execute *)
GitPushTool ==
    /\ Requested("git_push")
    /\ RunCommand(GitPushCmd(sb_op.remote, sb_op.branch), "Pushed successfully",
                  "Error pushing")

(* deploy_tools.py:51-91 CloudflareDeployTool.execute *)
CloudflareDeployTool ==
    /\ Requested("cloudflare_deploy")
    /\ RunCommand(DeployCmd(sb_op.directory, sb_op.project_name), "Deployment successful!",
                  "Deployment failed.")

OrchIdle == UNCHANGED <<orchVars, regVars, phVars>>

InitSandbox == OrchInit /\ SandboxInit /\ RegIdle /\ PhIdle
NextSandbox ==
    \/ ShellExecTool /\ OrchIdle
    \/ FileReadTool /\ OrchIdle
    \/ FileWriteTool /\ OrchIdle
    \/ FileListTool /\ OrchIdle
    \/ GitInitTool /\ OrchIdle
    \/ GitAddTool /\ OrchIdle
    \/ GitCommitTool /\ OrchIdle
    \/ GitPushTool /\ OrchIdle
    \/ CloudflareDeployTool /\ OrchIdle
SpecSandbox == InitSandbox /\ [][NextSandbox]_vars

---------------------------------------------------------------------------
(* Properties of the command validator and the path validation (SpecSandbox) *)

ShellReturned == sb_op.tool = "shell_exec" /\ sb_out.returned

HasBlockedToken(c) ==
    LET lowered == Lower(c) IN
    \E b \in Elems(BLOCKED_COMMANDS) : \E i \in DOMAIN lowered :
        /\ i + Len(b) - 1 <= Len(lowered)
        /\ SubSeq(lowered, i, i + Len(b) - 1) = b

(* c[i..j] is the first whitespace-delimited token of c *)
IsFirstToken(c, i, j) ==
    /\ i <= j
    /\ \A k \in 1..(i - 1) : c[k] \in Whitespace
    /\ \A k \in i..j : c[k] \notin Whitespace
    /\ j = Len(c) \/ c[j + 1] \in Whitespace

(* the part of the first token after its last "/" is in the allow-list *)
FinalSegmentAllowed(c) ==
    \E i \in DOMAIN c, j \in DOMAIN c :
        /\ IsFirstToken(c, i, j)
        /\ \E k \in i..j :
            /\ k = i \/ c[k - 1] = Ord("/")
            /\ \A m \in k..j : c[m] # Ord("/")
            /\ SubSeq(c, k, j) \in Elems(ALLOWED_COMMANDS)

(* C6: the validator rejects a command (nothing is handed to exec_run) if
   and only if a blocked token is a substring of the lowercased command or
   the final path segment of its first whitespace-delimited token is not in
   the allow-list; an empty command is rejected. *)
C6_ValidatorDecision ==
    ShellReturned =>
        (exec_log = <<>> <=>
            (HasBlockedToken(sb_op.command) \/ ~FinalSegmentAllowed(sb_op.command)))

C6_Witness ==
    /\ ShellReturned
    /\ exec_log = <<sb_op.command>>
    /\ \E i \in DOMAIN sb_op.command : sb_op.command[i] = Ord("/")
    /\ \E i \in DOMAIN sb_op.command : sb_op.command[i] = Ord(" ")

(* C7: every command handed to container.exec_run, by any tool, is one
   that _is_command_allowed accepts. *)
C7_OnlyAcceptedCommandsRun ==
    \A i \in DOMAIN exec_log : IsCommandAllowed(exec_log[i])

C7_Witness ==
    /\ sb_op.tool = "file_write" /\ sb_out.returned
    /\ Len(sb_out.commands) = 2
    /\ exec_log = <<sb_out.commands[1]>>
    /\ ~IsCommandAllowed(sb_out.commands[2])

FileTools == {"file_read", "file_write", "file_list"}

HasParentSegment(p) == \E seg \in Elems(SplitOn(p, Ord("/"))) : seg = Str(<<".", ".">>)
LeadingSlash(p) == p # <<>> /\ p[1] = Ord("/")

(* C8: a file tool given a path with a ".." segment or a leading "/" hands
   no command to the sandbox. *)
C8_FileToolsConfined ==
    /\ sb_op.tool \in FileTools
    /\ sb_out.returned
    /\ HasParentSegment(sb_op.path) \/ LeadingSlash(sb_op.path)
    => sb_out.commands = <<>> /\ exec_log = <<>>

ContainsDotDot(p) == \E i \in DOMAIN p : i < Len(p) /\ p[i] = Ord(".") /\ p[i + 1] = Ord(".")

(* C9: read_file and write_file reject a path if and only if it contains
   ".." or starts with "/"; a rejected path yields None / False and no
   command is given to exec_command or run. *)
C9_PathValidation ==
    sb_op.tool \in {"file_read", "file_write"} /\ sb_out.returned =>
        /\ sb_out.commands = <<>> <=> (ContainsDotDot(sb_op.path) \/ LeadingSlash(sb_op.path))
        /\ sb_out.commands = <<>> => sb_out.value \in {"None", "False"} /\ exec_log = <<>>

C9_Witness ==
    /\ sb_op.tool = "file_write" /\ sb_out.returned
    /\ ContainsDotDot(sb_op.path) /\ ~HasParentSegment(sb_op.path)
    /\ sb_out.commands = <<>>
    /\ sb_out.value = "False"

---------------------------------------------------------------------------
(* ToolRegistry on its own (SpecRegistry): tools are registered and
   execute_tool is called with any name and any arguments. *)

(* the parameters of each tool's execute, from its signature *)
Parameters ==
    [file_read         |-> [required |-> {"path"}, optional |-> {}],              \* file_tools.py:46
     file_write        |-> [required |-> {"path", "content"}, optional |-> {}],   \* file_tools.py:96
     file_list         |-> [required |-> {}, optional |-> {"path"}],              \* file_tools.py:139
     shell_exec        |-> [required |-> {"command"}, optional |-> {"timeout"}],  \* shell_tools.py:51
     git_init          |-> [required |-> {}, optional |-> {}],                    \* git_tools.py:41
     git_add           |-> [required |-> {}, optional |-> {}],                    \* git_tools.py:82
     git_commit        |-> [required |-> {"message"}, optional |-> {}],           \* git_tools.py:128
     git_push          |-> [required |-> {}, optional |-> {"remote", "branch"}],  \* git_tools.py:183
     search_web        |-> [required |-> {"query"}, optional |-> {"num_results"}],    \* web_tools.py:49
     fetch_url         |-> [required |-> {"url"}, optional |-> {}],               \* web_tools.py:133
     cloudflare_deploy |-> [required |-> {}, optional |-> {"directory", "project_name"}],  \* deploy_tools.py:51
     notify_user       |-> [required |-> {"message"}, optional |-> {}],           \* user_tools.py:45
     ask_user          |-> [required |-> {"question"}, optional |-> {"options"}]] \* user_tools.py:102

(* tools registered and names called in SpecRegistry *)
RegistryNames == {"file_write", "file_list", "shell_exec"}
CalledNames == RegistryNames \cup {"no_such_tool"}
ArgumentKeys == {"path", "content", "command", "timeout"}
Handles == {1, 2}

(* the arguments of a tool call after json.loads: an object with some keys,
   or a JSON value that is not an object *)
ArgumentValues == [mapping : BOOLEAN, keys : SUBSET ArgumentKeys]

(* exception classes a call can end with *)
ExceptionClasses == {"TypeError", "ValueError", "RuntimeError"}

(* how the body of the tool's execute ends once its parameters are bound *)
ToolBehaviours == {"returns"} \cup ExceptionClasses

(* base.py:85 the call of tool.execute with the arguments as keywords: the
   exception it ends with, or "none" *)
CallExecute(tool, arguments, behaviour) ==
    LET sig == Parameters[tool.name] IN
    IF ~arguments.mapping THEN "TypeError"
    ELSE IF ~(sig.required \subseteq arguments.keys) THEN "TypeError"
    ELSE IF ~(arguments.keys \subseteq sig.required \cup sig.optional) THEN "TypeError"
    ELSE IF behaviour = "returns" THEN "none"
    ELSE behaviour

(* base.py:88 with `except ValueError` *)
CaughtValueErrorOnly(exc) == exc = "ValueError"

(* base.py:88 `except Exception` *)
Caught(exc) == exc \in ExceptionClasses

(* ToolRegistry.execute_tool (base.py:69-91) *)
ExecuteToolResult(tools, name, arguments, behaviour) ==
    IF ~HasTool(tools, name)
    THEN [raised |-> "none", result |-> "Error: Tool not found"]          \* lines 81-82
    ELSE LET exc == CallExecute(tools[name], arguments, behaviour) IN
         IF exc = "none" THEN [raised |-> "none", result |-> "result"]    \* lines 85-87
         ELSE IF Caught(exc)
         THEN [raised |-> "none", result |-> "Error executing tool"]      \* lines 88-91
         ELSE [raised |-> exc, result |-> "none"]

NoCall == [name |-> "none"]

RegistryInit == reg_tools = EmptyRegistry /\ reg_out = NoCall

(* ToolRegistry.register (base.py:56-59) *)
RegistryRegister ==
    /\ \E h \in Handles, n \in RegistryNames :
        reg_tools' = Register(reg_tools, [name |-> n, container |-> h, task_id |-> 0])
    /\ reg_out' = NoCall

(* one call of execute_tool; its outcome stays in reg_out until the next
   register *)
RegistryExecuteTool ==
    /\ reg_out = NoCall
    /\ \E name \in CalledNames, arguments \in ArgumentValues, behaviour \in ToolBehaviours :
        LET r == ExecuteToolResult(reg_tools, name, arguments, behaviour) IN
        reg_out' = [name |-> name, arguments |-> arguments, behaviour |-> behaviour,
                    raised |-> r.raised, result |-> r.result]
    /\ UNCHANGED reg_tools

InitRegistry == OrchInit /\ SbIdle /\ RegistryInit /\ PhIdle
NextRegistry ==
    \/ RegistryRegister /\ UNCHANGED <<orchVars, sbVars, phVars>>
    \/ RegistryExecuteTool /\ UNCHANGED <<orchVars, sbVars, phVars>>
SpecRegistry == InitRegistry /\ [][NextRegistry]_vars

---------------------------------------------------------------------------
(* Properties of ToolRegistry (SpecRegistry) *)

Called == reg_out.name # "none"

FitsParameters(name, arguments) ==
    /\ arguments.mapping
    /\ Parameters[name].required \subseteq arguments.keys
    /\ arguments.keys \subseteq Parameters[name].required \cup Parameters[name].optional

(* C10: execute_tool never raises; a call of an unregistered name, a call
   whose arguments do not fit the tool's parameters and a call whose tool
   throws each return an error text. *)
C10_ExecuteToolNeverRaises ==
    Called =>
        /\ reg_out.raised = "none"
        /\ reg_out.name \notin DOMAIN reg_tools => reg_out.result = "Error: Tool not found"
        /\ /\ reg_out.name \in DOMAIN reg_tools
           /\ ~FitsParameters(reg_out.name, reg_out.arguments) \/ reg_out.behaviour # "returns"
           => reg_out.result = "Error executing tool"

C10_Witness ==
    /\ Called
    /\ reg_out.name \in DOMAIN reg_tools
    /\ ~FitsParameters(reg_out.name, reg_out.arguments)
    /\ reg_out.result = "Error executing tool"

(* C11: a register call for a name that is already present is rejected: no
   step changes the tool registered under a name. *)
C11_DuplicateRegistrationRejected ==
    [][\A n \in DOMAIN reg_tools : n \in DOMAIN reg_tools' /\ reg_tools'[n] = reg_tools[n]]_vars

---------------------------------------------------------------------------
(* Properties of the registry held by the orchestrator (Spec) *)

(* a tool is bound to the sandbox handle and the task of the execution in
   progress (0: the tool has no such binding) *)
BoundToCurrentTask(tool) ==
    /\ tool.container \in {0, created}
    /\ tool.task_id \in {0, current_task_id}

(* C12: while a task is being executed, the registry it uses holds no tool
   bound to the sandbox handle or the task id of another execution: the
   registry is the task's own. *)
C12_RegistryPerTask ==
    pc \notin {"idle", "stopped"} => \A n \in DOMAIN tool_registry : BoundToCurrentTask(tool_registry[n])

---------------------------------------------------------------------------
(* One run of _execute_phase on concrete replies, with the tools acting on
   the sandbox (SpecPhase).  conversation and steps hold what the current
   turn of the while loop has appended; what earlier turns appended is not
   kept in the state. *)

(* main.py:227 result[:1000] *)
STEP_CONTENT_LIMIT == 1000
(* shell_tools.py:67-68 *)
SHELL_RESULT_LIMIT == 5000

(* the tool-call requests a reply may carry, without their identifiers:
   name and argument text (parses: json.loads accepts it, value: the object
   it yields) *)
RequestShapes ==
    { [name |-> "shell_exec",
       arguments |-> [parses |-> TRUE, value |-> [command |-> Str(<<"l", "s">>)]]],
      [name |-> "shell_exec",
       arguments |-> [parses |-> TRUE, value |-> [command |-> Str(<<"s", "u", "d", "o", " ", "l", "s">>)]]],
      [name |-> "file_write",
       arguments |-> [parses |-> TRUE,
                      value |-> [path |-> Str(<<"a">>), content |-> Str(<<"h", "i">>)]]],
      [name |-> "shell_exec", arguments |-> [parses |-> FALSE]] }

(* the provider gives every request of a reply its own identifier *)
WithIds(shapes, turn) ==
    [k \in DOMAIN shapes |->
        [id |-> <<turn, k>>, name |-> shapes[k].name, arguments |-> shapes[k].arguments]]

(* llm.py:81-90: the replies of the provider in turn `turn` *)
Replies(turn) ==
    {[content |-> c, tool_calls |-> WithIds(shapes, turn)] :
        c \in ContentKinds, shapes \in SeqsUpTo(RequestShapes, MaxToolCalls)}

(* llm.py:212-238 LLMOrchestrator.parse_tool_calls: a request whose argument
   text does not parse is skipped *)
RECURSIVE ParseCalls(_)
ParseCalls(calls) ==
    IF calls = <<>> THEN <<>>
    ELSE LET call == Head(calls) IN
         (IF call.arguments.parses
          THEN <<[id |-> call.id, name |-> call.name, arguments |-> call.arguments.value]>>
          ELSE <<>>) \o ParseCalls(Tail(calls))

(* llm.py:163-165 add_message, llm.py:240-246 add_tool_result *)
Message(role, content) == [role |-> role, content |-> content]
ToolMessage(tool_call_id, text) ==
    [role |-> "tool", tool_call_id |-> tool_call_id, content |-> text]

(* main.py:171 the user message of a turn *)
UserMessage(turn) == IF turn = 1 THEN "phase prompt" ELSE "Continue with the task."

(* llm.py:205-208: what get_completion appends for a reply *)
CompletionMessages(turn, reply) ==
    <<Message("user", UserMessage(turn))>>
        \o (IF Truthy(reply.content) THEN <<Message("assistant", reply.content)>> ELSE <<>>)

(* database.py:102-138 add_task_step: the row *)
Step(phase_name, step_type, content) ==
    [phase |-> phase_name, step_type |-> step_type, content |-> content]

(* a text returned by a tool: what it says, the error text it quotes, and
   how many characters it has *)
Text(says, stderr, len) == [text |-> says, stderr |-> stderr, len |-> len]

(* the whole text where text[:n] is meant *)
NoTruncate(text, n) == text
(* text[:n] *)
Truncate(text, n) == [text EXCEPT !.len = IF @ > n THEN n ELSE @]

(* number of decimal digits of n *)
RECURSIVE Digits(_)
Digits(n) == IF n < 10 THEN 1 ELSE 1 + Digits(n \div 10)


(* lengths of what a command writes to stdout or stderr *)
OutputLengths == {6, 6000}

(* shell_tools.py:51-70 ShellExecTool.execute, from what exec_command
   returned; out_len is the length of the output of a command that ran *)
ShellExecText(command, r, out_len) ==
    LET stdout_len == IF r.stdout = "" THEN 0 ELSE out_len
        stderr_len == IF r.stderr = "" THEN 0
                      ELSE IF r.stderr = "Command not allowed" THEN 21 + Len(command)
                      ELSE out_len
        len == 11 + Digits(r.exit_code) + 1
               + (IF stdout_len > 0 THEN 9 + stdout_len ELSE 0)
               + (IF stderr_len > 0 THEN 9 + stderr_len ELSE 0)
        says == IF r.exit_code = 0 THEN "Exit code: 0" ELSE "Exit code: 1"
    IN IF len > SHELL_RESULT_LIMIT
       THEN Text(says, r.stderr, SHELL_RESULT_LIMIT + 24 + Digits(len) + 7)
       ELSE Text(says, r.stderr, len)

(* file_tools.py:96-101 FileWriteTool.execute, from what write_file returned *)
FileWriteText(path, content, value) ==
    IF value = "True"
    THEN Text("Successfully wrote", "", 19 + Digits(Len(content)) + 15 + Len(path))
    ELSE Text("Error: Failed to write", "", 26 + Len(path))

(* the arguments of a parsed call fit the parameters of the tool *)
ArgumentsFit(call) ==
    /\ Parameters[call.name].required \subseteq DOMAIN call.arguments
    /\ DOMAIN call.arguments \subseteq
            Parameters[call.name].required \cup Parameters[call.name].optional

(* base.py:69-91 ToolRegistry.execute_tool for a parsed call of shell_exec
   or file_write: the text returned and the commands handed to exec_run *)
ExecuteToolCall(tools, call, docker_first, docker_second, out_len) ==
    IF ~HasTool(tools, call.name)
    THEN [text |-> Text("Error: Tool not found", "", 13 + Len(call.name) + 11),
          exec_run |-> <<>>]
    ELSE IF ~ArgumentsFit(call)
    THEN [text |-> Text("Error executing tool", "TypeError", 21 + Len(call.name) + 2 + out_len),
          exec_run |-> <<>>]
    ELSE IF call.name = "shell_exec"
    THEN LET r == ExecCommand(call.arguments.command, docker_first) IN
         [text |-> ShellExecText(call.arguments.command, r, out_len),
          exec_run |-> r.exec_run]
    ELSE LET w == WriteFile(call.arguments.path, call.arguments.content,
                            docker_first, docker_second) IN
         [text |-> FileWriteText(call.arguments.path, call.arguments.content, w.value),
          exec_run |-> w.exec_run]


(* the state in which execute_task calls _execute_phase (main.py:86): task 1
   is running in sandbox 1 and its tools are registered *)
InitPhase ==
    /\ phase_idx \in {1, Len(phases)}            \* the first or the last phase
    /\ db = [t \in Tasks |-> IF t = 1 THEN [status |-> "running", phase |-> phases[phase_idx]]
                             ELSE [status |-> "absent", phase |-> "RESEARCH"]]
    /\ pending_tasks = <<>>
    /\ current_task_id = 1
    /\ current_container = 1
    /\ tool_registry = RegisterTools(EmptyRegistry, 1, 1)
    /\ sandboxes = <<[task |-> 1, active |-> TRUE]>>
    /\ pc = "phase_start"
    /\ iteration = 0
    /\ tool_calls = <<>>
    /\ ret = "none"
    /\ started = <<>>
    /\ results = <<>>
    /\ model_calls = 0
    /\ cleanup_calls = 0
    /\ created = 1
    /\ completed_written = FALSE
    /\ SbIdle /\ RegIdle /\ PhIdle

(* what a step of _execute_phase leaves alone *)
PhaseFrame ==
    UNCHANGED <<db, pending_tasks, orchFields, sandboxes, phase_idx, history,
                sb_op, sb_out, regVars>>

(* an exception leaves _execute_phase *)
Abort(exc) ==
    /\ pc' = "returned"
    /\ ret' = "raise"
    /\ fault' = exc
    /\ LeavePhase

(* _execute_phase returns *)
Return(value) ==
    /\ pc' = "returned"
    /\ ret' = value
    /\ fault' = fault
    /\ LeavePhase

(* main.py:150-163: the PHASE_START step; the store may raise *)
RunPhaseStart ==
    /\ pc = "phase_start"
    /\ \E ok \in BOOLEAN :
        IF ok THEN /\ steps' = <<Step(phase, "PHASE_START", "Starting phase")>>
                   /\ pc' = "loop"
                   /\ UNCHANGED <<iteration, tool_calls, ret, fault>>
        ELSE steps' = steps /\ Abort("store")
    /\ UNCHANGED <<response, conversation, result, exec_log>>
    /\ UNCHANGED outstanding
    /\ PhaseFrame

(* main.py:188-201: a reply without parsed tool calls *)
RunNoToolCalls(reply) ==
    IF reply.content = "None" THEN Abort("AttributeError")       \* main.py:327
    ELSE /\ pc' = IF IsPhaseComplete(reply) THEN "log_complete" ELSE "turn_end"
         /\ UNCHANGED <<iteration, tool_calls, ret, fault>>

(* the calls a phase makes and waits for: get_completion in a turn
   (main.py:170), execute_tool for a parsed request (main.py:220) *)
ModelOp(turn) == [op |-> "get_completion", id |-> <<turn, 0>>]
ToolOp(call) == [op |-> "execute_tool", id |-> call.id]

(* main.py:165-170: the head of the while loop; the turn is counted and
   get_completion is called *)
RunModelRequest ==
    /\ pc = "loop"
    /\ LoopCondition
    /\ pc' = "model_call"
    /\ iteration' = iteration + 1
    /\ outstanding' = outstanding \cup {ModelOp(iteration + 1)}
    /\ UNCHANGED <<tool_calls, ret, fault, response, conversation, steps, result, exec_log>>
    /\ PhaseFrame

(* a variant that would consult the completion predicate before looking
   at the tool calls of the reply *)
RunModelCallCompletionFirst ==
    /\ pc = "model_call"
    /\ outstanding' = outstanding \ {ModelOp(iteration)}
    /\ \/ /\ response' = NoReply
          /\ conversation' = <<>>
          /\ steps' = <<>>
          /\ Abort("provider")
       \/ \E reply \in Replies(iteration), ok \in BOOLEAN :
            LET parsed == ParseCalls(reply.tool_calls) IN
            /\ response' = reply
            /\ conversation' = CompletionMessages(iteration, reply)
            /\ IF Truthy(reply.content) /\ ~ok
               THEN steps' = <<>> /\ Abort("store")
               ELSE /\ steps' = IF Truthy(reply.content)
                                THEN <<Step(phase, "LLM_RESPONSE", reply.content)>>
                                ELSE <<>>
                    /\ IF parsed = <<>> \/ IsPhaseComplete(reply) THEN RunNoToolCalls(reply)
                       ELSE /\ pc' = "tool_call"
                            /\ tool_calls' = parsed
                            /\ UNCHANGED <<iteration, ret, fault>>
    /\ UNCHANGED <<result, exec_log>>
    /\ PhaseFrame
(* main.py:170-203: get_completion is back; one turn of the while loop up
   to the decision what to do with the reply *)
RunModelCall ==
    /\ pc = "model_call"
    /\ outstanding' = outstanding \ {ModelOp(iteration)}
    /\ \/ /\ response' = NoReply                                  \* llm.py:92-94
          /\ conversation' = <<>>
          /\ steps' = <<>>
          /\ Abort("provider")
       \/ \E reply \in Replies(iteration), ok \in BOOLEAN :
            LET parsed == ParseCalls(reply.tool_calls) IN
            /\ response' = reply
            /\ conversation' = CompletionMessages(iteration, reply)
            /\ IF Truthy(reply.content) /\ ~ok
               THEN steps' = <<>> /\ Abort("store")               \* main.py:178
               ELSE /\ steps' = IF Truthy(reply.content)
                                THEN <<Step(phase, "LLM_RESPONSE", reply.content)>>
                                ELSE <<>>
                    /\ IF parsed = <<>> THEN RunNoToolCalls(reply)
                       ELSE /\ pc' = "tool_call"
                            /\ tool_calls' = parsed
                            /\ UNCHANGED <<iteration, ret, fault>>
    /\ UNCHANGED <<result, exec_log>>
    /\ PhaseFrame

(* main.py:165, 201: back to the head of the while loop.  response,
   conversation, steps and exec_log hold what the current turn added; the
   next turn starts them afresh *)
RunNextTurn ==
    /\ pc = "turn_end"
    /\ pc' = "loop"
    /\ response' = NoReply
    /\ conversation' = <<>>
    /\ steps' = <<>>
    /\ exec_log' = <<>>
    /\ UNCHANGED <<iteration, tool_calls, ret, fault, result>>
    /\ UNCHANGED outstanding
    /\ PhaseFrame

(* main.py:233-235 *)
RunMaxIterations ==
    /\ pc = "loop"
    /\ ~LoopCondition
    /\ Return("False")
    /\ UNCHANGED <<response, conversation, steps, result, exec_log>>
    /\ UNCHANGED outstanding
    /\ PhaseFrame

(* main.py:190-198: the PHASE_COMPLETE step, then return True *)
RunLogComplete ==
    /\ pc = "log_complete"
    /\ \E ok \in BOOLEAN :
        IF ok THEN /\ steps' = Append(steps, Step(phase, "PHASE_COMPLETE", "phase completed"))
                   /\ Return("True")
        ELSE steps' = steps /\ Abort("store")
    /\ UNCHANGED <<response, conversation, result, exec_log>>
    /\ UNCHANGED outstanding
    /\ PhaseFrame

(* a variant that would hand every request of the turn to its tool at once *)
RunToolCallStepStartsAll ==
    /\ pc = "tool_call"
    /\ \E ok \in BOOLEAN :
        IF ok THEN /\ steps' = Append(steps, Step(phase, "TOOL_CALL", Head(tool_calls).name))
                   /\ pc' = "tool_exec"
                   /\ outstanding' = outstanding \cup {ToolOp(tool_calls[k]) : k \in DOMAIN tool_calls}
                   /\ UNCHANGED <<iteration, tool_calls, ret, fault>>
        ELSE steps' = steps /\ Abort("store") /\ UNCHANGED outstanding
    /\ UNCHANGED <<response, conversation, result, exec_log>>
    /\ PhaseFrame
(* main.py:204-217: the next call of the turn, its TOOL_CALL step *)
RunToolCallStep ==
    /\ pc = "tool_call"
    /\ \E ok \in BOOLEAN :
        IF ok THEN /\ steps' = Append(steps, Step(phase, "TOOL_CALL", Head(tool_calls).name))
                   /\ pc' = "tool_exec"
                   /\ outstanding' = outstanding \cup {ToolOp(Head(tool_calls))}
                   /\ UNCHANGED <<iteration, tool_calls, ret, fault>>
        ELSE steps' = steps /\ Abort("store") /\ UNCHANGED outstanding
    /\ UNCHANGED <<response, conversation, result, exec_log>>
    /\ PhaseFrame

RunExecuteToolRejectionRaises ==
    /\ pc = "tool_exec"
    /\ \E docker_first \in DockerOutcomes, docker_second \in DockerOutcomes,
          out_len \in OutputLengths :
        LET x == ExecuteToolCall(tool_registry, Head(tool_calls),
                                 docker_first, docker_second, out_len) IN
        IF x.text.stderr = "Command not allowed"
        THEN /\ Abort("ValueError")
             /\ UNCHANGED <<result, exec_log>>
        ELSE /\ result' = x.text
             /\ exec_log' = exec_log \o x.exec_run
             /\ pc' = "tool_result"
             /\ UNCHANGED <<iteration, tool_calls, ret, fault>>
    /\ outstanding' = outstanding \ {ToolOp(Head(tool_calls))}
    /\ UNCHANGED <<response, conversation, steps>>
    /\ PhaseFrame
(* main.py:220: execute_tool returns the text of the result *)
RunExecuteTool ==
    /\ pc = "tool_exec"
    /\ outstanding' = outstanding \ {ToolOp(Head(tool_calls))}
    /\ \E docker_first \in DockerOutcomes, docker_second \in DockerOutcomes,
          out_len \in OutputLengths :
        LET x == ExecuteToolCall(tool_registry, Head(tool_calls),
                                 docker_first, docker_second, out_len) IN
        /\ result' = x.text
        /\ exec_log' = exec_log \o x.exec_run
    /\ pc' = "tool_result"
    /\ UNCHANGED <<iteration, tool_calls, ret, fault, response, conversation, steps>>
    /\ PhaseFrame

(* sandbox.py:103: exec_run is called without a time limit; a command that
   does not end keeps the call of the tool from returning *)
RunExecuteHangs ==
    /\ pc = "tool_exec"
    /\ LET x == ExecuteToolCall(tool_registry, Head(tool_calls), "exit0", "exit0", 6) IN
        /\ x.exec_run # <<>>
        /\ exec_log' = Append(exec_log, Head(x.exec_run))
    /\ pc' = "blocked"
    /\ UNCHANGED <<iteration, tool_calls, ret, fault, response, conversation, steps, result>>
    /\ UNCHANGED outstanding
    /\ PhaseFrame

(* main.py:222-231: the TOOL_RESULT step, then add_tool_result; on to the
   next call of the turn or to the next turn *)
RunToolResult ==
    /\ pc = "tool_result"
    /\ \E ok \in BOOLEAN :
        IF ok
        THEN /\ steps' = Append(steps, Step(phase, "TOOL_RESULT",
                                            Truncate(result, STEP_CONTENT_LIMIT)))
             /\ conversation' = Append(conversation, ToolMessage(Head(tool_calls).id, result))
             /\ tool_calls' = Tail(tool_calls)
             /\ pc' = IF Tail(tool_calls) = <<>> THEN "turn_end" ELSE "tool_call"
             /\ UNCHANGED <<iteration, ret, fault>>
        ELSE steps' = steps /\ conversation' = conversation /\ Abort("store")
    /\ result' = NoText
    /\ UNCHANGED <<response, exec_log>>
    /\ UNCHANGED outstanding
    /\ PhaseFrame

(* main.py:87-106: what execute_task does once _execute_phase has returned
   or raised: the next turn of the for loop after True (status completed
   after the last phase), status error after False, the exception handler
   after an exception or a refused status write.  No row is added to the
   step log on any of these paths *)
RunAfterPhase ==
    /\ pc = "returned"
    /\ \E ok \in BOOLEAN, ok_handler \in BOOLEAN :
        LET wanted == IF ret = "True" THEN "completed" ELSE "error"
            handler == ret = "raise" \/ ~ok
        IN IF ret = "True" /\ phase_idx < Len(phases)
           THEN /\ pc' = "next_phase"
                /\ UNCHANGED <<db, ret>>
           ELSE /\ pc' = "finished"
                /\ IF ~handler
                   THEN /\ db' = IF ret = "True"
                                  THEN UpdateTask(UpdateTask(db, current_task_id, "status", wanted),
                                                  current_task_id, "phase", "FINALIZE")
                                  ELSE UpdateTask(db, current_task_id, "status", wanted)
                        /\ ret' = ret
                   ELSE IF ok_handler
                   THEN /\ db' = UpdateTask(db, current_task_id, "status", "error")
                        /\ ret' = "False"
                   ELSE /\ db' = db
                        /\ ret' = "raise"
    /\ UNCHANGED <<pending_tasks, orchFields, sandboxes, locals, history,
                   sb_op, sb_out, exec_log, regVars, phVars>>

PhaseIdle == UNCHANGED <<model_calls, messages>>
NextPhase ==
    \/ RunPhaseStart /\ PhaseIdle
    \/ RunModelRequest /\ PhaseIdle
    \/ RunModelCall /\ PhaseIdle
    \/ RunNextTurn /\ PhaseIdle
    \/ RunMaxIterations /\ PhaseIdle
    \/ RunLogComplete /\ PhaseIdle
    \/ RunToolCallStep /\ PhaseIdle
    \/ RunExecuteTool /\ PhaseIdle
    \/ RunExecuteHangs /\ PhaseIdle
    \/ RunToolResult /\ PhaseIdle
    \/ RunAfterPhase
SpecPhase == InitPhase /\ [][NextPhase]_vars
(* the steps of _execute_phase other than the call of execute_tool *)
PhaseProgress ==
    /\ \/ RunPhaseStart
       \/ RunModelRequest
       \/ RunModelCall
       \/ RunNextTurn
       \/ RunMaxIterations
       \/ RunLogComplete
       \/ RunToolCallStep
       \/ RunToolResult
    /\ PhaseIdle
(* the event loop runs the coroutine of _execute_phase whenever it can make
   a step, and a call of execute_tool that was made either returns or has
   handed a command to exec_run that does not end *)
SpecPhaseFair ==
    InitPhase /\ [][NextPhase]_vars /\ WF_vars(PhaseProgress) /\ []<>(pc # "tool_exec")


(* ---- properties of one run of _execute_phase ---- *)

(* the calls parse_tool_calls made of the reply of the current turn *)
Parsed == ParseCalls(response.tool_calls)
(* how many of them the for loop has finished *)
Done == Len(Parsed) - Len(tool_calls)
ToolMessages == SelectSeq(conversation, LAMBDA m : m.role = "tool")
StepsOf(step_type) == SelectSeq(steps, LAMBDA s : s.step_type = step_type)
InTurn == pc \in {"tool_call", "tool_exec", "blocked", "tool_result", "turn_end"}
CallStarted == pc \in {"tool_exec", "blocked", "tool_result"}
Min(a, b) == IF a < b THEN a ELSE b

(* C13: within one turn the tool calls are executed in the order the reply
   gave them; when a call of the turn starts, and when the turn ends, every
   earlier call of the turn has its result in the conversation as a tool
   message carrying the call's id, and a copy cut to STEP_CONTENT_LIMIT
   characters persisted as a TOOL_RESULT step, in the same order *)
C13_ToolCallsInOrder ==
    InTurn =>
        /\ Done \in 0..Len(Parsed)
        /\ tool_calls = SubSeq(Parsed, Done + 1, Len(Parsed))
        /\ Len(StepsOf("TOOL_CALL")) = Done + (IF CallStarted THEN 1 ELSE 0)
        /\ \A k \in DOMAIN StepsOf("TOOL_CALL") : StepsOf("TOOL_CALL")[k].content = Parsed[k].name
        /\ Len(ToolMessages) = Done
        /\ Len(StepsOf("TOOL_RESULT")) = Done
        /\ \A k \in 1..Done :
            /\ ToolMessages[k].tool_call_id = Parsed[k].id
            /\ StepsOf("TOOL_RESULT")[k].content.text = ToolMessages[k].content.text
            /\ StepsOf("TOOL_RESULT")[k].content.len
                    = Min(ToolMessages[k].content.len, STEP_CONTENT_LIMIT)
(* the second call of a turn starts after a first one whose result was longer
   than a step keeps *)
C13_Witness ==
    /\ pc = "tool_exec"
    /\ Done = 1
    /\ Len(ToolMessages) = 1
    /\ ToolMessages[1].content.len > STEP_CONTENT_LIMIT
    /\ StepsOf("TOOL_RESULT")[1].content.len = STEP_CONTENT_LIMIT


(* the turn is over without an exception: the loop is back at the head of
   the while statement *)
TurnOver == pc = "turn_end"
Answered(request) == \E i \in DOMAIN ToolMessages : ToolMessages[i].tool_call_id = request.id

(* C14: when a turn is over, every tool-call request of the reply, one whose
   argument text does not parse included, has a tool message with its call
   identifier in the conversation *)
C14_EveryRequestAnswered ==
    TurnOver => \A k \in DOMAIN response.tool_calls : Answered(response.tool_calls[k])

(* C15: a reply without tool-call requests never aborts the phase: if the
   phase ended by an exception in a turn whose reply carried no request,
   the exception came from the completion provider or from the store *)
C15_TextReplyNeverAborts ==
    (pc = "returned" /\ ret = "raise" /\ response.tool_calls = <<>>)
        => fault \in {"provider", "store"}


(* ---- failure of a phase in execute_task ---- *)

Last(seq) == seq[Len(seq)]
(* the phase that ran last used up its iterations: _execute_phase returned
   False (only main.py:233-235 does) *)
BudgetExhausted == results # <<>> /\ ~Last(results)
(* an exception left the phase that ran last: it was entered and returned
   nothing *)
RaisedInPhase == Len(started) > Len(results)
Handled == pc \in {"finally", "done"}
status == db[current_task_id].status

(* C16 as stated: after a phase used up its iteration budget the execution
   ends with the task status error *)
C16_BudgetExhaustionSetsError ==
    (pc = "done" /\ BudgetExhausted /\ ~Interrupted) => status = "error"

(* C16, amended: a phase that used up its iteration budget is the last phase
   entered, it was entered once and no phase after it is entered; the
   execution does not return True; the status becomes error when one of the
   two writes of it (main.py:90, 105) is accepted by the store, and is never
   completed *)
C16_BudgetExhaustionHardFailure ==
    /\ \A k \in DOMAIN results : ~results[k] => k = Len(results)
    /\ BudgetExhausted =>
        /\ started = SubSeq(phases, 1, Len(results))
        /\ pc \in {"phase_failed", "except", "finally", "done"}
        /\ Handled => /\ ret \in {"False", "raise", "interrupt"}
                      /\ ret = "False" => status = "error"
                      /\ status # "completed"
                      /\ ~completed_written
(* the second phase used up its budget and the task ended in error *)
C16_Witness ==
    /\ pc = "done"
    /\ results = <<TRUE, FALSE>>
    /\ ret = "False"
    /\ status = "error"

(* C17 as stated: after an exception left a phase the execution ends with
   the task status error *)
C17_PhaseExceptionSetsError ==
    (pc = "done" /\ RaisedInPhase /\ ~Interrupted) => status = "error"

(* C17, amended: an exception that leaves a phase (provider failure, store
   write failure) is the end of the phases: from the handler on no phase is
   entered and no model call is made; execute_task does not return True;
   the status is error when the handler's write (main.py:105) is accepted,
   and never completed; cleanup_sandbox is invoked once on the sandbox of
   the execution *)
C17_PhaseExceptionPropagates ==
    [][/\ (RaisedInPhase /\ pc \in {"except", "finally"}) =>
            /\ started' = started
            /\ results' = results
            /\ model_calls' <= model_calls
            /\ pc' \in {"except", "finally", "done"}
       /\ (RaisedInPhase /\ Handled)' =>
            /\ ret' \in {"False", "raise", "interrupt"}
            /\ ret' = "False" => status' = "error"
            /\ status' # "completed"
       /\ (RaisedInPhase /\ pc = "done")' =>
            /\ cleanup_calls' = 1
            /\ Len(started') = Len(results') + 1]_vars
(* the provider or the store failed in the second phase; the task ended in
   error with its sandbox torn down *)
C17_Witness ==
    /\ pc = "done"
    /\ results = <<TRUE>>
    /\ Len(started) = 2
    /\ ret = "False"
    /\ status = "error"
    /\ ~sandboxes[created].active


(* ---- tool failures inside a phase ---- *)

(* a shell_exec call whose command the validator refuses *)
RejectedCall(call) ==
    /\ call.name = "shell_exec"
    /\ "command" \in DOMAIN call.arguments
    /\ ~IsCommandAllowed(call.arguments.command)
(* the text shell_exec returns for a refused command *)
ReportsRejection(text) == text.text = "Exit code: 1" /\ text.stderr = "Command not allowed"
(* the text shell_exec returns when docker raised *)
ReportsException(text) == text.text = "Exit code: 1" /\ text.stderr = "exception"
(* the step is the one that finishes the current call: its TOOL_RESULT step
   is written and its result is fed back, and the loop goes on with the
   next call or the next turn *)
CallFinished ==
    /\ pc' \in {"tool_call", "turn_end"}
    /\ ret' = "none"
    /\ iteration' = iteration
    /\ Len(steps') = Len(steps) + 1
    /\ Last(steps').step_type = "TOOL_RESULT"
    /\ Last(steps').content.text = result.text
    /\ Last(steps').content.stderr = result.stderr
    /\ Len(conversation') = Len(conversation) + 1
    /\ Last(conversation') = [role |-> "tool", tool_call_id |-> Head(tool_calls).id,
                              content |-> result]
(* the step aborts the phase because the store refused the step *)
StoreFailed == pc' = "returned" /\ ret' = "raise" /\ fault' = "store"

(* C18: a shell_exec call with a disallowed command hands nothing to
   exec_run and returns the rejection as its text; that text is logged as a
   TOOL_RESULT step and fed back with the id of the call, and the loop goes
   on with the next call or turn: only a failure of the store aborts.  A
   file_write call returns one of its two texts whatever was rejected
   before it *)
C18_RejectedCommandContained ==
    [][/\ (pc = "tool_exec" /\ RejectedCall(Head(tool_calls))) =>
            /\ pc' = "tool_result"
            /\ exec_log' = exec_log
            /\ ReportsRejection(result')
       /\ (pc = "tool_result" /\ RejectedCall(Head(tool_calls))) =>
            /\ ReportsRejection(result)
            /\ CallFinished \/ StoreFailed
       /\ (pc = "tool_exec" /\ Head(tool_calls).name = "file_write" /\ pc' = "tool_result") =>
            result'.text \in {"Successfully wrote", "Error: Failed to write"}]_vars
(* a turn in which a rejected shell command was followed by a successful
   file_write, both logged and fed back *)
C18_Witness ==
    /\ pc = "turn_end"
    /\ Len(Parsed) = 2
    /\ RejectedCall(Parsed[1])
    /\ Parsed[2].name = "file_write"
    /\ Len(ToolMessages) = 2
    /\ ReportsRejection(ToolMessages[1].content)
    /\ ToolMessages[2].content.text = "Successfully wrote"
    /\ Len(StepsOf("TOOL_RESULT")) = 2
    /\ ReportsRejection(StepsOf("TOOL_RESULT")[1].content)
    /\ StepsOf("TOOL_RESULT")[2].content.text = "Successfully wrote"
    /\ exec_log # <<>>
    /\ \A i \in DOMAIN exec_log : exec_log[i] # Parsed[1].arguments.command

(* C19: when docker raises while a command is executed, exec_command
   returns exit code 1 with the text of the exception, shell_exec returns
   that as its text, and the phase goes on: the text is logged and fed back
   and only a failure of the store aborts *)
C19_ExecFailureContained ==
    [][/\ (pc' = "tool_result" /\ result'.text # "none" /\ result'.stderr = "exception") =>
            /\ ReportsException(result')
            /\ ret' = "none"
            /\ fault' = "none"
       /\ (pc = "tool_result" /\ result.stderr = "exception") =>
            CallFinished \/ StoreFailed]_vars
(* the exception of docker came back to the model as the result of the call *)
C19_Witness ==
    /\ pc = "tool_call"
    /\ Len(ToolMessages) = 1
    /\ ReportsException(ToolMessages[1].content)
    /\ Parsed[1].name = "shell_exec"
    /\ ReportsException(StepsOf("TOOL_RESULT")[1].content)

(* under the fairness of SpecPhaseFair a phase that does not end is one
   whose command never came back *)
EndsUnlessBlocked == <>(pc \in {"returned", "blocked"})

(* C20: the phase is never blocked for ever by one command: every run of
   _execute_phase eventually returns or raises *)
C20_PhaseEventuallyEnds == <>(pc = "returned")


---------------------------------------------------------------------------
(* SpecUserTools: one notify_user or ask_user request against the task     *)
(* store and the step log (tools/user_tools.py).  The task of the tool is  *)
(* running in one of the five phases.                                      *)

(* lengths of the message or question the model passes *)
MessageLengths == {5, 1000, 1001, 5000}
Messages == {Text("message", "", n) : n \in MessageLengths}
Options == {<<>>, <<"yes", "no">>}

InitUserTools ==
    /\ phase_idx \in DOMAIN phases
    /\ db = [t \in Tasks |-> IF t = 1 THEN [status |-> "running", phase |-> phases[phase_idx]]
                             ELSE [status |-> "absent", phase |-> "RESEARCH"]]
    /\ pending_tasks = <<>>
    /\ current_task_id = 1
    /\ current_container = 1
    /\ tool_registry = RegisterTools(EmptyRegistry, 1, 1)
    /\ sandboxes = <<[task |-> 1, active |-> TRUE]>>
    /\ pc = "tool_exec"
    /\ iteration = 1
    /\ tool_calls = <<>>
    /\ ret = "none"
    /\ started = <<>>
    /\ results = <<>>
    /\ model_calls = 0
    /\ cleanup_calls = 0
    /\ created = 1
    /\ completed_written = FALSE
    /\ \/ \E m \in Messages : sb_op = [tool |-> "notify_user", message |-> m]
       \/ \E q \in Messages, o \in Options :
            sb_op = [tool |-> "ask_user", question |-> q, options |-> o]
    /\ sb_out = NoResult
    /\ exec_log = <<>>
    /\ RegIdle /\ PhIdle

(* what a user tool leaves alone *)
UserToolFrame ==
    UNCHANGED <<pending_tasks, orchFields, sandboxes, pc, locals, ret, history,
                sb_op, exec_log, regVars, response, conversation, result, fault,
                messages, outstanding>>

(* user_tools.py:45-60 NotifyUserTool.execute; the store may refuse the row *)
NotifyUserTool ==
    /\ Requested("notify_user")
    /\ \E ok \in BOOLEAN :
        IF ok
        THEN /\ steps' = Append(steps, Step("NOTIFICATION", "USER_NOTIFICATION", sb_op.message))
             /\ sb_out' = [returned |-> TRUE, result |-> "Notification sent to user"]
        ELSE /\ steps' = steps
             /\ sb_out' = [returned |-> TRUE, result |-> "Error: Failed to send notification"]
    /\ db' = db
    /\ UserToolFrame

(* user_tools.py:102-129 AskUserTool.execute: the status write, then the
   row; the store may refuse either *)
AskUserTool ==
    /\ Requested("ask_user")
    /\ \E ok_update \in BOOLEAN, ok_step \in BOOLEAN :
        IF ~ok_update
        THEN /\ db' = db
             /\ steps' = steps
             /\ sb_out' = [returned |-> TRUE, result |-> "Error: Failed to ask user"]
        ELSE /\ db' = UpdateTask(db, tool_registry["ask_user"].task_id,
                                 "status", "waiting_for_input")
             /\ IF ok_step
                THEN /\ steps' = Append(steps, Step("USER_INPUT", "USER_QUESTION", sb_op.question))
                     /\ sb_out' = [returned |-> TRUE,
                                   result |-> "User input requested. Task paused awaiting response."]
                ELSE /\ steps' = steps
                     /\ sb_out' = [returned |-> TRUE, result |-> "Error: Failed to ask user"]
    /\ UserToolFrame

NextUserTools ==
    \/ NotifyUserTool
    \/ AskUserTool
SpecUserTools == InitUserTools /\ [][NextUserTools]_vars

(* C21: every row of the step log has content of at most STEP_CONTENT_LIMIT
   characters *)
C21_StepContentCapped ==
    \A k \in DOMAIN steps : steps[k].content.len <= STEP_CONTENT_LIMIT

(* C23: every row of the step log carries the phase the task is in when the
   row is written, one of the five phase names *)
C23_StepCarriesTaskPhase ==
    \A k \in DOMAIN steps :
        /\ steps[k].phase = db[current_task_id].phase
        /\ steps[k].phase \in {phases[i] : i \in DOMAIN phases}


TerminalStatuses == {"completed", "error"}
(* C22: every change of the status of the task to completed or error is
   recorded: the step that makes it adds a row to the step log *)
C22_TerminalStatusHasStep ==
    [][(status' \in TerminalStatuses /\ status' # status) => Len(steps') > Len(steps)]_vars


---------------------------------------------------------------------------
(* The conversation history of the LLMOrchestrator across the phases of
   execute_task (SpecConversation).  The orchestrator, and with it the
   history, outlives the executions (main.py:33-39); a message is kept as
   the task and the phase it was added in. *)

ChatMessage == [task |-> current_task_id, phase |-> phase]
SystemMessage == [task |-> 0, phase |-> "system"]

(* the history a run of task t leaves behind in which every phase was
   complete after its first reply *)
RECURSIVE ShortestHistory(_, _)
ShortestHistory(t, i) ==
    IF i > Len(phases) THEN <<>>
    ELSE << [task |-> t, phase |-> phases[i]],        \* the user message
            [task |-> t, phase |-> phases[i]] >>      \* the reply
         \o ShortestHistory(t, i + 1)

(* the service after it ran task 1 to completion, with task 2 waiting *)
InitConversation ==
    /\ db = [t \in Tasks |->
               IF t = 1 THEN [status |-> "completed", phase |-> "FINALIZE"]
               ELSE IF t = 2 THEN [status |-> "pending", phase |-> "RESEARCH"]
               ELSE [status |-> "absent", phase |-> "RESEARCH"]]
    /\ current_task_id = 1
    /\ current_container = 1
    /\ tool_registry = RegisterTools(EmptyRegistry, 1, 1)
    /\ sandboxes = <<[task |-> 1, active |-> FALSE]>>
    /\ conversation = ShortestHistory(1, 1)
    /\ pending_tasks = <<>>
          /\ current_task_id = 1
          /\ current_container = 1
          /\ tool_registry = RegisterTools(EmptyRegistry, 1, 1)
          /\ sandboxes = <<[task |-> 1, active |-> FALSE]>>
    /\ pc = "idle"
    /\ phase_idx = 0
    /\ iteration = 0
    /\ tool_calls = <<>>
    /\ ret = "none"
    /\ started = <<>>
    /\ results = <<>>
    /\ model_calls = 0
    /\ cleanup_calls = 0
    /\ created = 0
    /\ completed_written = FALSE
    /\ SbIdle /\ RegIdle
    /\ response = NoReply
    /\ steps = <<>>
    /\ result = NoText
    /\ fault = "none"
    /\ messages = <<>>
    /\ outstanding = {}

ChatFrame == UNCHANGED <<sbVars, regVars, response, steps, result, fault, outstanding>>
ChatIdle == UNCHANGED <<conversation, messages>> /\ ChatFrame

(* a variant of execute_task without the call of reset_conversation *)
ResetConversationLeftOut ==
    /\ CreateSandbox
    /\ UNCHANGED <<conversation, messages>>
(* main.py:65-72: the sandbox is there, the tools are registered, and
   reset_conversation (llm.py:159-161) empties the history *)
ResetConversation ==
    /\ CreateSandbox
    /\ conversation' = IF pc' = "phase_update" THEN <<>> ELSE conversation
    /\ UNCHANGED messages

(* a variant that would start every phase with an empty history *)
EnterPhaseResets ==
    /\ PhaseStart
    /\ conversation' = <<>>
    /\ UNCHANGED messages
(* main.py:150-163: entering a phase leaves the history alone *)
EnterPhase ==
    /\ PhaseStart
    /\ UNCHANGED <<conversation, messages>>

(* main.py:165-203 with get_completion (llm.py:167-210): the list handed to
   the provider is the system prompt, the history and the new user message;
   when the provider has answered the user message is added to the history,
   and the reply if it has text *)
GetCompletion ==
    /\ pc = "loop"
    /\ LoopCondition
    /\ model_calls' = model_calls + 1
    /\ messages' = <<SystemMessage>> \o conversation \o <<ChatMessage>>
    /\ \/ RaiseInPhase /\ conversation' = conversation          \* llm.py:92-94
       \/ \E r \in Responses, ok \in BOOLEAN :
            /\ conversation' = conversation \o <<ChatMessage>>
                                \o (IF Truthy(r.content)
                                    THEN <<ChatMessage>> ELSE <<>>)
            /\ IF Truthy(r.content) /\ ~ok THEN RaiseInPhase     \* main.py:178
               ELSE IF ParseToolCalls(r) = <<>> THEN NoToolCalls(r)
               ELSE /\ pc' = "tool_call"
                    /\ tool_calls' = ParseToolCalls(r)
                    /\ iteration' = iteration + 1
    /\ UNCHANGED <<db, pending_tasks, orchFields, sandboxes, phase_idx, ret,
                   started, results, cleanup_calls, created, completed_written>>

(* main.py:204-231 with add_tool_result (llm.py:240-246): the result of the
   call is added to the history after its TOOL_RESULT step was written *)
AddToolResult ==
    /\ ToolCall
    /\ conversation' = IF pc' = "except" THEN conversation
                       ELSE Append(conversation, ChatMessage)
    /\ UNCHANGED messages

NextConversation ==
    \/ SvcPoll /\ ChatIdle
    \/ SvcExecute /\ ChatIdle
    \/ SvcReturn /\ ChatIdle
    \/ GetTask /\ ChatIdle
    \/ UpdateRunning /\ ChatIdle
    \/ ResetConversation /\ ChatFrame
    \/ PhaseUpdate /\ ChatIdle
    \/ EnterPhase /\ ChatFrame
    \/ GetCompletion /\ ChatFrame
    \/ MaxIterationsReached /\ ChatIdle
    \/ LogComplete /\ ChatIdle
    \/ AddToolResult /\ ChatFrame
    \/ PhaseFailed /\ ChatIdle
    \/ MarkCompleted /\ ChatIdle
    \/ Except /\ ChatIdle
    \/ Finally /\ ChatIdle
    \/ Interrupt /\ ChatIdle
    \/ SvcInterrupt /\ ChatIdle
SpecConversation == InitConversation /\ [][NextConversation]_vars

IsPrefix(a, b) == Len(a) <= Len(b) /\ SubSeq(b, 1, Len(a)) = a
ModelCalled == model_calls' = model_calls + 1
ResetStep == pc = "create_sandbox" /\ pc' = "phase_update"

(* C24: the conversation is reset once per execution of a task, before its
   first phase, and never between phases: the only step that does not
   extend the history is the one that leads from the creation of the
   sandbox to the first phase, no phase was entered by then, and it leaves
   the history empty, as the first phase finds it; every call of the model is handed the system prompt,
   the whole history and the new user message, so that it sees messages of
   every earlier phase of the task and none of an earlier task *)
C24_ConversationResetOncePerTask ==
    [][ /\ ~IsPrefix(conversation, conversation') => ResetStep
        /\ ResetStep => (conversation' = <<>> /\ started = <<>>)
        /\ (started = <<>> /\ started' # <<>>) => conversation = <<>>
        /\ ModelCalled =>
              /\ messages' = <<SystemMessage>> \o conversation \o <<ChatMessage>>
              /\ \A i \in 1..(phase_idx - 1) :
                    \E k \in DOMAIN conversation :
                        conversation[k] = [task |-> current_task_id, phase |-> phases[i]]
              /\ \A k \in DOMAIN conversation : conversation[k].task = current_task_id
      ]_vars
(* the first call of the model in the second phase of task 2 was handed the
   messages of its first phase and nothing of task 1 *)
C24_Witness ==
    /\ current_task_id = 2
    /\ phase_idx = 2
    /\ model_calls = 1
    /\ Len(messages) >= 4
    /\ messages[2] = [task |-> 2, phase |-> "RESEARCH"]
    /\ messages[Len(messages)] = [task |-> 2, phase |-> "PLAN"]

(* C25: when execute_task returns False without a sandbox having been
   created (the task could not be looked up, or the set-up failed and the
   handler ran), the task is marked error, no phase was started and the
   model was not called *)
C25_SetupFailureMarksError ==
    (pc = "done" /\ ret = "False" /\ created = 0) =>
        (status = "error" /\ started = <<>> /\ model_calls = 0)

(* C26: the service loop is not ended by the failure of one task: when
   execute_task is over, whether it returned True or False or an exception
   escaped it, the service can take its next step and that step leads back
   to the point where it polls for pending tasks or takes the next task of
   its snapshot; at that point a discovery pass or the next execution is
   always possible; the only way the loop ends is an interrupt, while the
   service waits or inside the execution *)
C26_ServiceSurvivesTaskFailure ==
    /\ [][(pc = "done" /\ ~Interrupted) => pc' \in {"done", "idle"}]_vars
    /\ [][(pc # "stopped" /\ pc' = "stopped") => (pc = "idle" \/ Interrupted)]_vars
    /\ [](pc = "done" => ENABLED SvcReturn)
    /\ [](pc = "idle" => ENABLED (SvcPoll \/ SvcExecute))
(* an exception escaped the execution of task 1 (its status was left at
   running), and a discovery pass made afterwards found task 2 *)
C26_Witness ==
    /\ pc = "idle"
    /\ current_task_id = 1
    /\ db[1].status = "running"
    /\ pending_tasks = <<2>>

(* C28: the completion predicate is consulted only on a turn whose reply
   has no parsed tool call: whenever the phase is about to log its
   completion, has logged it, or has returned True, the last reply had no
   parsed tool call and its text matched; a PHASE_COMPLETE step is the last
   step, comes directly after the LLM_RESPONSE step of that reply, and no
   tool was called in that turn *)
C28_CompletionOnlyWithoutToolCalls ==
    /\ (pc = "log_complete" \/ ret = "True" \/ StepsOf("PHASE_COMPLETE") # <<>>)
            => (Parsed = <<>> /\ IsPhaseComplete(response))
    /\ StepsOf("PHASE_COMPLETE") # <<>> =>
            /\ Len(StepsOf("PHASE_COMPLETE")) = 1
            /\ Len(steps) >= 2
            /\ steps[Len(steps)].step_type = "PHASE_COMPLETE"
            /\ steps[Len(steps) - 1].step_type = "LLM_RESPONSE"
            /\ StepsOf("TOOL_CALL") = <<>>
(* a turn whose reply had a completion phrase in its text and a parsed tool
   call is over and the phase goes on *)
C28_Witness ==
    /\ pc = "turn_end"
    /\ IsPhaseComplete(response)
    /\ Parsed # <<>>
    /\ StepsOf("TOOL_RESULT") # <<>>

Waiting == current_task_id \in Tasks /\ db[current_task_id].status = "waiting_for_input"

(* C29: once ask_user has set the status of the task to waiting_for_input
   the task is paused: no call of the model follows, no tool is executed,
   and the status is not changed to completed or error (the model has no
   step by which a user answers) *)
C29_AskUserPauses ==
    [][Waiting => /\ model_calls' <= model_calls
                  /\ ~(pc = "tool_call" /\ pc' \in {"loop", "tool_call"}
                                         /\ Len(tool_calls') < Len(tool_calls))
                  /\ db'[current_task_id].status \notin {"completed", "error"}]_vars

(* C30: the command git_init issues is accepted by the validator and is
   handed to the sandbox, and when it exits with 0 git_init returns its
   success text *)
C30_GitInitReachesSandbox ==
    (sb_op.tool = "git_init" /\ sb_out.returned) =>
        /\ exec_log # <<>>
        /\ sb_out.exit_code = 0 => sb_out.result = "Git repository initialized successfully"

(* C27: for one task at most one call is in progress at any time: no two
   calls of the model are outstanding together, and no execution of a tool
   overlaps another one or a call of the model; while the model is asked no
   tool runs, and the tool that runs is the one of the request at the head
   of the turn's list *)
C27_OneOperationAtATime ==
    /\ Cardinality(outstanding) <= 1
    /\ (pc = "model_call") => outstanding = {ModelOp(iteration)}
    /\ (pc \in {"tool_exec", "blocked"}) => outstanding = {ToolOp(Head(tool_calls))}
    /\ (pc \notin {"model_call", "tool_exec", "blocked"}) => outstanding = {}
(* the second request of a turn is being executed, after the first one
   came back *)
C27_Witness ==
    /\ pc = "tool_exec"
    /\ Len(Parsed) = 2
    /\ Done = 1
    /\ outstanding = {ToolOp(Parsed[2])}

(* C31: for every path that passes the path validation the command that
   writes the file is handed to the sandbox, whatever the content spells *)
C31_WriteReachesSandboxForAnyContent ==
    (sb_op.tool = "file_write" /\ sb_out.returned /\ ~InvalidFilePath(sb_op.path)) =>
        HeredocCmd(sb_op.path, EscapeQuotes(sb_op.content)) \in Elems(exec_log)

(* C32: cleanup_sandbox is only invoked on the handle the current execution
   created: the handle of every call is the one created in this execution
   and is still active, so an execution that created none makes no call and
   no handle is destroyed twice *)
C32_CleanupOnlyOwnHandle ==
    [][cleanup_calls' > cleanup_calls =>
            /\ created # 0
            /\ current_container = created
            /\ sandboxes[current_container].active]_vars

(* C33: execute_task always returns a boolean and never raises, whichever
   collaborator fails *)
C33_ExecuteTaskNeverRaises ==
    (pc = "done" /\ ~Interrupted) => ret \in {"True", "False"}

(* the message m is an assistant message that carries a request with this
   call identifier *)
RequestsCall(m, id) ==
    /\ m.role = "assistant"
    /\ "tool_calls" \in DOMAIN m
    /\ \E k \in DOMAIN m.tool_calls : m.tool_calls[k].id = id

(* C34: in the history every tool-result message is preceded by an
   assistant message that requested the call with the same identifier *)
C34_ToolResultHasRequest ==
    \A i \in DOMAIN conversation :
        conversation[i].role = "tool" =>
            \E j \in 1..(i - 1) : RequestsCall(conversation[j], conversation[i].tool_call_id)

(* C35: the list handed to the provider by a model call of a task starts
   with the system prompt and holds besides it only messages added while
   that task was executed: no message of an earlier task is sent *)
C35_NoMessageOfAnotherTask ==
    [][ModelCalled =>
            /\ messages'[1] = SystemMessage
            /\ \A k \in 2..Len(messages') : messages'[k].task = current_task_id
      ]_vars
(* the first model call of task 2, made by the orchestrator that ran task 1
   before, was handed the system prompt and its own user message only *)
C35_Witness ==
    /\ current_task_id = 2
    /\ phase_idx = 1
    /\ model_calls = 1
    /\ messages = <<SystemMessage, [task |-> 2, phase |-> "RESEARCH"]>>

HandedOver == pc = "idle" /\ pc' = "get_task"
LeftPending == \A t \in Tasks : db[t].status \notin {"absent", "pending"} => db'[t].status # "pending"
RunningBeforeSandbox == (created' # 0 \/ started' # <<>>) => db'[current_task_id'].status # "pending"
FinishedNotHandedOver == HandedOver => db[current_task_id'].status \notin {"completed", "error"}
NotHandedOverTwiceInARow == HandedOver => current_task_id' # current_task_id

(* C36: a task is executed at most once by the polling service: the task
   handed to execute_task is never the one that was handed to it last, its
   status has left pending before its sandbox is created or a phase starts,
   no status returns to pending, and a task whose status is completed or
   error is not handed to execute_task *)
C36_ExecutedAtMostOnce ==
    [][ /\ NotHandedOverTwiceInARow
        /\ RunningBeforeSandbox
        /\ LeftPending
        /\ FinishedNotHandedOver ]_vars

---------------------------------------------------------------------------
(* execute_task under a scheduler that lets it run (SpecFair): Python runs
   the statements of execute_task one after another, and every call it makes
   of a collaborator returns or raises.  The service's own steps and the
   submission of tasks are under no obligation. *)
ExecuteTaskStep ==
    /\ \/ GetTask
       \/ UpdateRunning
       \/ CreateSandbox
       \/ PhaseUpdate
       \/ PhaseStart
       \/ ModelCall
       \/ MaxIterationsReached
       \/ LogComplete
       \/ ToolCall
       \/ PhaseFailed
       \/ MarkCompleted
       \/ Except
       \/ Interrupt
       \/ Finally
    /\ UNCHANGED <<sbVars, regVars, phVars>>
SpecFair == Init /\ [][Next]_vars /\ WF_vars(ExecuteTaskStep)

(* C37: every execution of a task ends, after at most 5 x MAX_ITERATIONS
   calls of the model: no more than the five phases are entered, none
   twice, no phase makes more than MAX_ITERATIONS calls, and an execution
   that has begun reaches its end *)
C37_ExecutionTerminates ==
    /\ [](/\ Len(started) <= Len(phases)
          /\ \A i, j \in DOMAIN started : i # j => started[i] # started[j]
          /\ model_calls <= MAX_ITERATIONS
          /\ started # <<>> =>
                (Len(started) - 1) * MAX_ITERATIONS + model_calls <= 5 * MAX_ITERATIONS)
    /\ (pc = "get_task") ~> (pc = "done")
(* an execution that went through all five phases and ended when the last
   one ran out of turns *)
C37_Witness ==
    /\ pc = "done"
    /\ started = phases
    /\ results # <<>> /\ ~results[Len(results)]
    /\ ret = "False"

---------------------------------------------------------------------------
(* The step log of one phase (SpecStepLog): one run of _execute_phase with
   every row it and its tools add to the step log, from PHASE_START to the
   return.  The content of a TOOL_CALL or TOOL_RESULT row is kept as the
   call it belongs to: the tool, the turn, and how many calls of the turn
   were still to come. *)

CurrentCall == [name |-> Head(tool_calls), turn |-> iteration, rest |-> Len(tool_calls)]

InitStepLog == InitPhase

StepLogFrame == UNCHANGED <<sbVars, regVars, response, conversation, result, fault,
                            messages, outstanding>>

(* main.py:150-163 *)
LogPhaseStart ==
    /\ PhaseStart
    /\ steps' = IF pc' = "loop" THEN Append(steps, Step(phase, "PHASE_START", "Starting phase"))
                ELSE steps

(* main.py:165-203: the reply is logged as an LLM_RESPONSE row if it has
   text *)
LogModelCall ==
    /\ pc = "loop"
    /\ LoopCondition
    /\ model_calls' = model_calls + 1
    /\ \/ RaiseInPhase /\ steps' = steps                         \* llm.py:92-94
       \/ \E r \in Responses, ok \in BOOLEAN :
            IF Truthy(r.content) /\ ~ok THEN RaiseInPhase /\ steps' = steps
            ELSE /\ steps' = IF Truthy(r.content)
                             THEN Append(steps, Step(phase, "LLM_RESPONSE", r.content))
                             ELSE steps
                 /\ IF ParseToolCalls(r) = <<>> THEN NoToolCalls(r)
                    ELSE /\ pc' = "tool_call"
                         /\ tool_calls' = ParseToolCalls(r)
                         /\ iteration' = iteration + 1
    /\ UNCHANGED <<db, pending_tasks, orchFields, sandboxes, phase_idx, ret,
                   started, results, cleanup_calls, created, completed_written>>

(* main.py:233-235 *)
LogMaxIterations ==
    /\ MaxIterationsReached
    /\ UNCHANGED steps

(* main.py:190-198 *)
LogPhaseComplete ==
    /\ LogComplete
    /\ steps' = IF pc' = "except" THEN steps
                ELSE Append(steps, Step(phase, "PHASE_COMPLETE", "phase completed"))

(* a variant that would log the TOOL_CALL rows of all calls of the turn
   before the first call is executed *)
LogToolCallAllFirst ==
    /\ pc = "tool_call"
    /\ \E ok_call \in BOOLEAN, ok_result \in BOOLEAN :
        IF ~ok_call THEN db' = db /\ steps' = steps /\ RaiseInPhase
        ELSE LET announced ==
                    [k \in DOMAIN tool_calls |->
                        Step(phase, "TOOL_CALL",
                             [name |-> tool_calls[k], turn |-> iteration,
                              rest |-> Len(tool_calls) - k + 1])]
                 called == steps \o announced
             IN /\ db' = db
                /\ IF ok_result
                   THEN /\ steps' = Append(called, Step(phase, "TOOL_RESULT", CurrentCall))
                        /\ tool_calls' = Tail(tool_calls)
                        /\ pc' = IF Tail(tool_calls) = <<>> THEN "loop" ELSE "tool_call"
                        /\ iteration' = iteration
                   ELSE steps' = called /\ RaiseInPhase
    /\ UNCHANGED <<pending_tasks, orchFields, sandboxes, phase_idx, ret, history>>
(* main.py:204-231 with the execute of the user tools: the TOOL_CALL row,
   the call of the tool, the TOOL_RESULT row.  ask_user sets the status and
   adds a USER_QUESTION row, each unless the store refuses (user_tools.py:
   102-129).  A request of the kind shell_exec is any request that leaves
   the table of tasks alone; notify_user is one of them, and it adds a
   USER_NOTIFICATION row unless the store refuses (user_tools.py:45-59). *)
LogToolCall ==
    /\ pc = "tool_call"
    /\ \E ok_call \in BOOLEAN, ok_status \in BOOLEAN, ok_question \in BOOLEAN,
          notifies \in BOOLEAN, ok_result \in BOOLEAN :
        IF ~ok_call THEN db' = db /\ steps' = steps /\ RaiseInPhase
        ELSE LET called == Append(steps, Step(phase, "TOOL_CALL", CurrentCall))
                 asks == HasTool(tool_registry, Head(tool_calls)) /\ Head(tool_calls) = "ask_user"
                 executed == IF asks /\ ok_status /\ ok_question
                             THEN Append(called, Step("USER_INPUT", "USER_QUESTION", "question"))
                             ELSE IF Head(tool_calls) = "shell_exec" /\ notifies
                             THEN Append(called, Step("NOTIFICATION", "USER_NOTIFICATION",
                                                      "message"))
                             ELSE called
             IN /\ db' = IF asks /\ ok_status
                         THEN UpdateTask(db, tool_registry["ask_user"].task_id,
                                         "status", "waiting_for_input")
                         ELSE db
                /\ IF ok_result
                   THEN /\ steps' = Append(executed, Step(phase, "TOOL_RESULT", CurrentCall))
                        /\ tool_calls' = Tail(tool_calls)
                        /\ pc' = IF Tail(tool_calls) = <<>> THEN "loop" ELSE "tool_call"
                        /\ iteration' = iteration
                   ELSE steps' = executed /\ RaiseInPhase
    /\ UNCHANGED <<pending_tasks, orchFields, sandboxes, phase_idx, ret, history>>

NextStepLog ==
    \/ LogPhaseStart /\ StepLogFrame
    \/ LogModelCall /\ StepLogFrame
    \/ LogMaxIterations /\ StepLogFrame
    \/ LogPhaseComplete /\ StepLogFrame
    \/ LogToolCall /\ StepLogFrame
SpecStepLog == InitStepLog /\ [][NextStepLog]_vars

ToolRows == {i \in DOMAIN steps : steps[i].step_type \in {"TOOL_CALL", "TOOL_RESULT"}}
RowsOf(step_type) == {i \in DOMAIN steps : steps[i].step_type = step_type}

(* C38: in the step log every TOOL_RESULT row comes after the TOOL_CALL row
   of the same call with no row of another call in between, no second
   TOOL_CALL row is written before the TOOL_RESULT row of the call before
   it, and both lie after the PHASE_START row of the phase and before its
   PHASE_COMPLETE row *)
C38_ToolRowsPairedAndOrdered ==
    /\ \A i \in RowsOf("TOOL_RESULT") :
        \E j \in RowsOf("TOOL_CALL") :
            /\ j < i
            /\ steps[j].content = steps[i].content
            /\ \A k \in ToolRows : ~(j < k /\ k < i)
    /\ \A i, j \in RowsOf("TOOL_CALL") :
        i < j => \E k \in RowsOf("TOOL_RESULT") :
                    i < k /\ k < j /\ steps[k].content = steps[i].content
    /\ \A i \in ToolRows :
        /\ steps[1].step_type = "PHASE_START"
        /\ \A k \in RowsOf("PHASE_COMPLETE") : i < k
    /\ RowsOf("PHASE_START") \subseteq {1}
(* the log of a phase in which two calls of one turn were executed, the
   first of them ask_user, and which was completed in the next turn *)
C38_Witness ==
    /\ Cardinality(RowsOf("TOOL_CALL")) = 2
    /\ Cardinality(RowsOf("TOOL_RESULT")) = 2
    /\ RowsOf("USER_QUESTION") # {}
    /\ steps[Len(steps)].step_type = "PHASE_COMPLETE"

---------------------------------------------------------------------------
(* The polling service under a scheduler that lets it run (SpecServiceFair):
   the while loop of OrchestratorService.run (main.py:353-374) goes on
   whenever it can, and so does the execute_task it has called. *)
ServiceStep ==
    /\ \/ SvcPoll
       \/ SvcExecute
       \/ SvcReturn
       \/ SvcInterrupt
    /\ UNCHANGED <<sbVars, regVars, phVars>>
SpecServiceFair ==
    Init /\ [][Next]_vars /\ WF_vars(ExecuteTaskStep) /\ WF_vars(ServiceStep)

Discovered(t) == \E i \in DOMAIN pending_tasks : pending_tasks[i] = t
HandedToExecuteTask(t) == pc = "get_task" /\ current_task_id = t

(* C39: as long as the service is not interrupted a pending task that a
   discovery pass has found is eventually handed to execute_task, whatever
   happens to the tasks found with it *)
C39_DiscoveredTaskEventuallyExecuted ==
    \/ <>(pc = "stopped")
    \/ \A t \in Tasks : Discovered(t) ~> HandedToExecuteTask(t)

PhaseIndex(name) == CHOOSE i \in DOMAIN phases : phases[i] = name
StoredPhase == db[current_task_id].phase
Executing == pc \notin {"idle", "stopped", "get_task"} /\ current_task_id \in Tasks

(* C40: during an execution the stored phase of the task only moves
   forward through the five phases, it is the phase that is entered before
   that phase's PHASE_START step is logged, and when the execution ends
   with status error because a phase failed (it returned False, or an
   exception left it) the stored phase is the phase that failed *)
C40_StoredPhaseFollowsExecution ==
    [][ /\ (Executing /\ current_task_id' = current_task_id) =>
                PhaseIndex(db'[current_task_id].phase) >= PhaseIndex(StoredPhase)
        /\ pc = "phase_start" => StoredPhase = phase
        /\ (pc = "phase_failed" /\ pc' = "finally" /\ ~Interrupted') =>
                /\ db'[current_task_id].status = "error"
                /\ db'[current_task_id].phase = phase
                /\ ~results[Len(results)]
        /\ (pc = "except" /\ RaisedInPhase) => StoredPhase = started[Len(started)]
      ]_vars
(* the execution ended with status error in the third phase, which ran out
   of turns, and the stored phase is BUILD *)
C40_Witness ==
    /\ pc = "done"
    /\ Len(started) = 3
    /\ results = <<TRUE, TRUE, FALSE>>
    /\ db[current_task_id].status = "error"
    /\ db[current_task_id].phase = "BUILD"
====
